---- MODULE Spec2Model ----
(***************************************************************************)
(* Model of the CloudTrail event source of plugins/cloudtrail              *)
(* (pkg/cloudtrail/source.go): the three open operations (openLocal,       *)
(* openS3 with its concurrent listKeys workers, openSQS), the queue poll   *)
(* getMoreSQSFiles, the batch downloader readNextFileS3, the record        *)
(* splitter extractRecordStrings and the pull state machine nextEvent.     *)
(*                                                                         *)
(* Bytes.  A byte string is a sequence of one-element tokens.  The         *)
(* splitter only tells '{' and '}' from every other byte, so "{" and "}"   *)
(* are themselves and every other token stands for a run of bytes without  *)
(* braces:                                                                 *)
(*    "R"  "Records":           "["  "]"  ","   punctuation                *)
(*    "T"  "eventTime":"2021-01-01T00:00:01Z"   (RFC3339)                  *)
(*    "U"  "eventTime":"2021-01-01T00:00:02Z"   (RFC3339)                  *)
(*    "t"  "eventTime":"yesterday"              (a string, not RFC3339)    *)
(*    "E"  "eventType":"AwsApiCall"                                        *)
(*    "I"  "eventType":"AwsCloudTrailInsight"                              *)
(*    "n"  "eventType":7                        (not a string)             *)
(*    "u"  "userIdentity":      (followed by a nested object)              *)
(*    "x"  bytes that are not JSON                                         *)
(*    "gz" a valid gzip header, "crc" a valid gzip trailer                 *)
(*    "z01".."z14" the bytes of a deflated payload, one for each token     *)
(*         above; in the stored objects none of them is a brace            *)
(* Names (paths, keys) are sequences of tokens too; an extension is a      *)
(* token of its own (".json", ".gz", ".txt").                              *)
(***************************************************************************)
EXTENDS Integers, Sequences, FiniteSets, TLC

\* ------------------------------------------------------------------ bounds
\* Largest S3DownloadConcurrency tried (0 is tried too).
MaxD == 2
\* Most inner objects of an envelope given to the splitter.
MaxRecs == 3
\* Most queue messages one session receives.
MaxMsgs == 2
\* Most transient fetch / read failures injected in one session.
MaxFails == 1
\* Most pieces of the bytes of a file given to the content handling alone.
MaxPieces == 3
\* Most tokens (account ids, commas, spaces) of an account list given to
\* the prefix derivation alone.
MaxAcctTokens == 4

\* ------------------------------------------------------- small helpers
min(a, b) == IF a < b THEN a ELSE b

RECURSIVE Concat(_)
Concat(ss) == IF ss = <<>> THEN <<>> ELSE Head(ss) \o Concat(Tail(ss))

HasSuffix(s, suf) ==
    /\ Len(s) >= Len(suf)
    /\ SubSeq(s, Len(s) - Len(suf) + 1, Len(s)) = suf

\* filepath.Ext: the last extension token of a name, "" if it has none.
Ext(name) ==
    IF name # <<>> /\ name[Len(name)] \in {".json", ".gz", ".txt"}
    THEN name[Len(name)] ELSE ""

IsCompressedName(name) == HasSuffix(name, <<".json", ".gz">>)

\* The extension filter of openLocal and listKeys.
MatchesExtAnyGz(name) == Ext(name) \in {".json", ".gz"}

MatchesExt(name) == Ext(name) = ".json" \/ IsCompressedName(name)

\* ------------------------------------------------------ record splitter
\* One iteration of the loop of extractRecordStrings on byte jsonStr[pos]
\* (pos counts from 0 as in the source).  st = [ind, start, res].
ScanStepShort(jsonStr, pos, st) ==
    LET char == jsonStr[pos + 1] IN
    IF char = "{" THEN
        [ind |-> st.ind + 1,
         start |-> IF st.ind = 1 THEN pos ELSE st.start,
         res |-> st.res]
    ELSE IF char = "}" THEN
        [ind |-> st.ind - 1,
         start |-> st.start,
         res |-> IF st.ind - 1 = 1 /\ pos < Len(jsonStr) - 1
                 THEN Append(st.res, [from |-> st.start, to |-> pos])
                 ELSE st.res]
    ELSE st

ScanStep(jsonStr, pos, st) ==
    LET char == jsonStr[pos + 1] IN
    IF char = "{" THEN
        [ind |-> st.ind + 1,
         start |-> IF st.ind = 1 THEN pos ELSE st.start,
         res |-> st.res]
    ELSE IF char = "}" THEN
        [ind |-> st.ind - 1,
         start |-> st.start,
         res |-> IF st.ind - 1 = 1 /\ pos < Len(jsonStr) - 1
                 THEN Append(st.res, [from |-> st.start, to |-> pos + 1])
                 ELSE st.res]
    ELSE st

RECURSIVE Scan(_, _, _)
Scan(jsonStr, pos, st) ==
    IF pos >= Len(jsonStr) THEN st
    ELSE LET next == ScanStep(jsonStr, pos, st) IN
         \* a byte that is no brace leaves the loop's variables as they are
         IF next.ind = st.ind THEN Scan(jsonStr, pos + 1, st)
         ELSE Scan(jsonStr, pos + 1, next)

\* The half-open byte ranges [from, to) that extractRecordStrings appends.
ExtractRanges(jsonStr) ==
    Scan(jsonStr, 0, [ind |-> 0, start |-> 0, res |-> <<>>]).res

\* jsonStr[from : to]
Slice(jsonStr, from, to) == SubSeq(jsonStr, from + 1, to)

extractRecordStrings(jsonStr) ==
    LET rs == ExtractRanges(jsonStr) IN
    [i \in 1..Len(rs) |-> Slice(jsonStr, rs[i].from, rs[i].to)]

\* ------------------------------------------------------------- gunzip
\* A gzip stream is a header, the deflated payload and a trailer.  The
\* deflated bytes are no braces: read as plain bytes, a stream holds no
\* record.  PlainBytes are the bytes of the world's files, DeflatedBytes
\* what each becomes in a stream.
PlainBytes ==
    <<"{", "}", "[", "]", ",", "R", "T", "U", "t", "E", "I", "u", "x", "n">>

DeflatedBytes ==
    <<"z01", "z02", "z03", "z04", "z05", "z06", "z07", "z08", "z09", "z10",
      "z11", "z12", "z13", "z14">>

DeflateByte(b) ==
    DeflatedBytes[CHOOSE i \in 1..Len(PlainBytes) : PlainBytes[i] = b]

InflateByte(z) ==
    PlainBytes[CHOOSE i \in 1..Len(DeflatedBytes) : DeflatedBytes[i] = z]

\* gzip.NewReader fails on a bad header, ioutil.ReadAll on a truncated or
\* corrupt stream; otherwise the payload between header and trailer.
GunzipOK(body) ==
    /\ Len(body) >= 2
    /\ body[1] = "gz"
    /\ body[Len(body)] = "crc"
    /\ \A i \in 2..(Len(body) - 1) :
          \E k \in 1..Len(DeflatedBytes) : DeflatedBytes[k] = body[i]

Gunzip(body) == [i \in 1..(Len(body) - 2) |-> InflateByte(body[i + 1])]

Gzip(plain) ==
    <<"gz">> \o [i \in 1..Len(plain) |-> DeflateByte(plain[i])] \o <<"crc">>

\* ------------------------------------------------------ record parsing
\* Nesting depth before each byte of a record.
RECURSIVE DepthBefore(_, _)
DepthBefore(rec, i) ==
    IF i <= 1 THEN 0
    ELSE DepthBefore(rec, i - 1)
         + (IF rec[i - 1] = "{" THEN 1 ELSE IF rec[i - 1] = "}" THEN -1 ELSE 0)

\* fastjson Parse succeeds: one object, braces balanced, no junk bytes.
JSONParses(rec) ==
    /\ Len(rec) >= 2
    /\ rec[1] = "{"
    /\ rec[Len(rec)] = "}"
    /\ DepthBefore(rec, Len(rec)) = 1
    /\ \A i \in 2..Len(rec) : DepthBefore(rec, i) >= 1
    /\ \A i \in 1..Len(rec) : rec[i] # "x"

\* The members of the record's own object (nested objects left out).
TopMembers(rec) ==
    {rec[i] : i \in {j \in 1..Len(rec) :
                        DepthBefore(rec, j) = 1 /\ rec[j] \notin {"{", "}"}}}

\* cr.GetStringBytes("eventTime"): "" stands for nil.
EventTimeString(rec) ==
    IF "T" \in TopMembers(rec) THEN "2021-01-01T00:00:01Z"
    ELSE IF "U" \in TopMembers(rec) THEN "2021-01-01T00:00:02Z"
    ELSE IF "t" \in TopMembers(rec) THEN "yesterday"
    ELSE ""

\* time.Parse(time.RFC3339, s) succeeds
IsRFC3339Any(s) == s # ""

IsRFC3339(s) == s \in {"2021-01-01T00:00:01Z", "2021-01-01T00:00:02Z"}

\* t1.UnixNano(), in seconds after 2021-01-01T00:00:00Z for short
UnixNano(s) == IF s = "2021-01-01T00:00:01Z" THEN 1 ELSE 2

\* An eventType that falls back to a default when the record has none.
EventTypeStringDefault(rec) ==
    IF "I" \in TopMembers(rec) THEN "AwsCloudTrailInsight" ELSE "AwsApiCall"

\* cr.GetStringBytes("eventType"): "" stands for nil (absent or no string).
EventTypeString(rec) ==
    IF "E" \in TopMembers(rec) THEN "AwsApiCall"
    ELSE IF "I" \in TopMembers(rec) THEN "AwsCloudTrailInsight"
    ELSE ""

InsightSentinel == "AwsCloudTrailInsight"

\* ------------------------------------------------------------ the world
\* Records of the test files.
RecGood1 == <<"{", "T", "E", "}">>
RecGood2 == <<"{", "U", "E", "u", "{", "t", "I", "}", "}">>
RecInsight == <<"{", "T", "I", "}">>
RecInsightBadTime == <<"{", "t", "I", "}">>
RecBadTime == <<"{", "t", "E", "}">>
RecNoTime == <<"{", "E", "}">>
RecJunk == <<"{", "x", "}">>
RecNoType == <<"{", "U", "}">>
RecNumType == <<"{", "T", "n", "}">>

RECURSIVE JoinComma(_)
JoinComma(objs) ==
    IF objs = <<>> THEN <<>>
    ELSE IF Len(objs) = 1 THEN objs[1]
    ELSE objs[1] \o <<",">> \o JoinComma(Tail(objs))

\* {"Records":[obj_1,...,obj_K]}
Envelope(objs) == <<"{", "R", "[">> \o JoinComma(objs) \o <<"]", "}">>

BodyA == Envelope(<<RecGood1, RecInsight, RecBadTime, RecGood2>>)
BodyC == Envelope(<<RecJunk, RecInsightBadTime, RecNoTime, RecNumType, RecGood1>>)
BodyD == Envelope(<<RecNoType, RecGood2>>)
BodyEmpty == Envelope(<<>>)
BodyTruncatedGz == <<"gz", DeflateByte("{"), DeflateByte("R"), DeflateByte("[")>>
BodyNotGz == <<"{", "R", "[", "]", "}">>

\* The tokens of every local path of the world.
LocalNameTokens ==
    ("logs/a.json" :> <<"logs", "/", "a", ".json">>)
    @@ ("logs/b.json.gz" :> <<"logs", "/", "b", ".json", ".gz">>)
    @@ ("logs/notes.txt" :> <<"logs", "/", "notes", ".txt">>)
    @@ ("logs/old.gz" :> <<"logs", "/", "old", ".gz">>)
    @@ ("logs/sub/c.json.gz" :> <<"logs", "/", "sub", "/", "c", ".json", ".gz">>)
    @@ ("logs2/e.json" :> <<"logs2", "/", "e", ".json">>)
    @@ ("logs2/g.json.gz" :> <<"logs2", "/", "g", ".json", ".gz">>)
    @@ ("empty/readme.txt" :> <<"empty", "/", "readme", ".txt">>)

\* The tokens of every key the queue's notifications name.
QueueNameTokens ==
    ("q/a.json.gz" :> <<"q", "/", "a", ".json", ".gz">>)
    @@ ("q/d.json" :> <<"q", "/", "d", ".json">>)
    @@ ("q/c.json" :> <<"q", "/", "c", ".json">>)
    @@ ("q/t.json.gz" :> <<"q", "/", "t", ".json", ".gz">>)

\* filepath.Walk of a directory: its entries in lexical order.
WalkEntries(dir) ==
    CASE dir = "logs" ->
            << [name |-> "logs", isDir |-> TRUE],
               [name |-> "logs/a.json", isDir |-> FALSE],
               [name |-> "logs/b.json.gz", isDir |-> FALSE],
               [name |-> "logs/notes.txt", isDir |-> FALSE],
               [name |-> "logs/old.gz", isDir |-> FALSE],
               [name |-> "logs/sub", isDir |-> TRUE],
               [name |-> "logs/sub/c.json.gz", isDir |-> FALSE] >>
      [] dir = "logs2" ->
            << [name |-> "logs2", isDir |-> TRUE],
               [name |-> "logs2/e.json", isDir |-> FALSE],
               [name |-> "logs2/g.json.gz", isDir |-> FALSE] >>
      [] dir = "empty" ->
            << [name |-> "empty", isDir |-> TRUE],
               [name |-> "empty/readme.txt", isDir |-> FALSE] >>
      [] OTHER -> <<>>

dirExists(path) == path \in {"logs", "logs2", "empty"}

LocalParams == {"", "missing", "empty", "logs", "logs2"}

\* The queue's notification messages.  shape "custom" is the snsMessage
\* {s3Bucket, s3ObjectKey}; shape "s3event" is the storage's own
\* object-created event, one bucket and key per record.  type "" is a
\* message without a Type property.
Messages ==
    ("mCustom" :> [bodyJSON |-> TRUE, type |-> "Notification", shape |-> "custom",
                   bucket |-> "b1", keys |-> <<"q/a.json.gz", "q/d.json">>,
                   records |-> <<>>])
    @@ ("mS3" :> [bodyJSON |-> TRUE, type |-> "Notification", shape |-> "s3event",
                  bucket |-> "", keys |-> <<>>,
                  records |-> << [bucket |-> "b1", key |-> "q/d.json"],
                                 [bucket |-> "b2", key |-> "q/c.json"] >>])
    @@ ("mBadGz" :> [bodyJSON |-> TRUE, type |-> "Notification", shape |-> "custom",
                     bucket |-> "b1", keys |-> <<"q/t.json.gz">>,
                     records |-> <<>>])
    @@ ("mNotJSON" :> [bodyJSON |-> FALSE, type |-> "", shape |-> "custom",
                       bucket |-> "", keys |-> <<>>, records |-> <<>>])
    @@ ("mConfirm" :> [bodyJSON |-> TRUE, type |-> "SubscriptionConfirmation",
                       shape |-> "custom", bucket |-> "", keys |-> <<>>,
                       records |-> <<>>])
    @@ ("mNoType" :> [bodyJSON |-> TRUE, type |-> "", shape |-> "custom",
                      bucket |-> "", keys |-> <<>>, records |-> <<>>])

MsgIds == DOMAIN Messages

\* The content stored under a name, of the local file system ("local") or
\* of a bucket.  NoSuchKey (no such file or object) fails the read or fetch.
NoSuchKey == <<"NoSuchKey">>

Stored(store, name) ==
    CASE store = "local" /\ name = "logs/a.json" -> BodyA
      [] store = "local" /\ name = "logs/b.json.gz" -> BodyTruncatedGz
      [] store = "local" /\ name = "logs/sub/c.json.gz" -> Gzip(BodyC)
      [] store = "local" /\ name = "logs2/e.json" -> BodyEmpty
      [] store = "local" /\ name = "logs2/g.json.gz" -> BodyNotGz
      [] store = "b1" /\ name = "q/a.json.gz" -> Gzip(BodyA)
      [] store = "b1" /\ name = "q/d.json" -> BodyD
      [] store = "b2" /\ name = "q/d.json" -> BodyEmpty
      [] store = "b2" /\ name = "q/c.json" -> BodyC
      [] store = "b1" /\ name = "q/t.json.gz" -> BodyTruncatedGz
      [] store = "trail" /\ name = "111/eu-west-1/20210101T0005_c.json.gz"
            -> BodyTruncatedGz
      [] store = "trail" /\ name = "111/us-east-1/20201231T2355_o.json.gz"
            -> Gzip(Envelope(<<RecGood1>>))
      [] store = "trail" /\ name = "111/us-east-1/20210101T0000_a.json.gz"
            -> Gzip(BodyD)
      [] store = "trail" /\ name = "111/us-east-1/20210101T0005_b.json"
            -> BodyEmpty
      [] store = "trail" /\ name = "111/us-east-1/20210101T0010_f.json"
            -> Envelope(<<RecGood1>>)
      [] store = "trail" /\ name = "222/us-east-1/20210101T0005_e.json.gz"
            -> Gzip(Envelope(<<RecInsight, RecGood2>>))
      [] OTHER -> NoSuchKey

\* ---------------------------------------------- the bucket "trail"
\* A prefix or key is a sequence of path segments and "/" tokens; the file
\* name of a CloudTrail key is split at "_CloudTrail_", "_" and "Z_".
Acct1 == "111111111111"
Acct2 == "222222222222"

IsAccount(t) == t \in {Acct1, Acct2}          \* \d{12}
IsOrgId(t) == t \in {"o-exampleorgid"}        \* o-[a-z0-9]{10,32}

\* ASCII order of the tokens that get compared.
TokenOrder ==
    <<"/", "01", "12", "20201231T2355", "2020", "20210101T0000",
      "20210101T0005", "20210101T0010", "2021", "31">>

TokRank(t) == IF \E i \in 1..Len(TokenOrder) : TokenOrder[i] = t
              THEN CHOOSE i \in 1..Len(TokenOrder) : TokenOrder[i] = t
              ELSE Len(TokenOrder) + 1

\* a < b as strings
RECURSIVE StrLess(_, _)
StrLess(a, b) ==
    IF b = <<>> THEN FALSE
    ELSE IF a = <<>> THEN TRUE
    ELSE IF Head(a) = Head(b) THEN StrLess(Tail(a), Tail(b))
    ELSE TokRank(Head(a)) < TokRank(Head(b))

HasPrefix(s, pre) == Len(s) >= Len(pre) /\ SubSeq(s, 1, Len(pre)) = pre

RegionDir(acct, region) ==
    <<"p", "/", "AWSLogs", "/", acct, "/", "CloudTrail", "/", region, "/">>

TrailKey(acct, region, y, m, d, ts, uniq, exts) ==
    RegionDir(acct, region) \o <<y, "/", m, "/", d, "/">>
    \o <<acct, "_CloudTrail_", region, "_", ts, "Z_", uniq>> \o exts

\* The keys of the bucket, in the order the storage lists them.
TrailKeys ==
    << "111/eu-west-1/20210101T0005_c.json.gz",
       "111/us-east-1/20201231T2355_o.json.gz",
       "111/us-east-1/20210101T0000_a.json.gz",
       "111/us-east-1/20210101T0005_b.json",
       "111/us-east-1/20210101T0005_b.txt",
       "111/us-east-1/20210101T0010_f.json",
       "222/us-east-1/20210101T0005_e.json.gz",
       "misc/readme.txt" >>

TrailNameTokens ==
    ("111/eu-west-1/20210101T0005_c.json.gz" :>
        TrailKey(Acct1, "eu-west-1", "2021", "01", "01", "20210101T0005", "c",
                 <<".json", ".gz">>))
    @@ ("111/us-east-1/20201231T2355_o.json.gz" :>
        TrailKey(Acct1, "us-east-1", "2020", "12", "31", "20201231T2355", "o",
                 <<".json", ".gz">>))
    @@ ("111/us-east-1/20210101T0000_a.json.gz" :>
        TrailKey(Acct1, "us-east-1", "2021", "01", "01", "20210101T0000", "a",
                 <<".json", ".gz">>))
    @@ ("111/us-east-1/20210101T0005_b.json" :>
        TrailKey(Acct1, "us-east-1", "2021", "01", "01", "20210101T0005", "b",
                 <<".json">>))
    @@ ("111/us-east-1/20210101T0005_b.txt" :>
        TrailKey(Acct1, "us-east-1", "2021", "01", "01", "20210101T0005", "b",
                 <<".txt">>))
    @@ ("111/us-east-1/20210101T0010_f.json" :>
        TrailKey(Acct1, "us-east-1", "2021", "01", "01", "20210101T0010", "f",
                 <<".json">>))
    @@ ("222/us-east-1/20210101T0005_e.json.gz" :>
        TrailKey(Acct2, "us-east-1", "2021", "01", "01", "20210101T0005", "e",
                 <<".json", ".gz">>))
    @@ ("misc/readme.txt" :>
        <<"p", "/", "AWSLogs", "/", "misc", "/", "readme", ".txt">>)

Tok(name) == (LocalNameTokens @@ QueueNameTokens @@ TrailNameTokens)[name]

\* fileInfo{name: path, isCompressed: strings.HasSuffix(path, ".json.gz")}
fileInfo(name) == [name |-> name, isCompressed |-> IsCompressedName(Tok(name))]

\* -------------------------------------------------------------- state
VARIABLES
    inst,       \* the PluginInstance (with its config)
    pc,         \* "closed", "listing", "open", "fetching" (a pull waits for
                \* its wave of fetches), "failed" or "crashed"
    lastRes,    \* what the last call (open or pull) returned
    evt,        \* the caller's event, as the last pull left it
    obs,        \* what the last call did (poll, file opened, fetches, pop)
    hist,       \* history: a fatal error was returned, last record emitted
    msgsLeft,   \* messages the queue may still deliver
    failsLeft,  \* transient read / fetch / listing failures that may still happen
    list,       \* openS3 between its chunks: the chunks and the listKeys workers
    dlErrChan,  \* the error channel (a global of the package)
    splitIn,    \* the splitter's input and
    splitOut,   \* its output, when the splitter runs alone
    callIn,     \* the argument and
    callOut     \* the result of another part of the source run alone; in a
                \* session, the wave of fetches of the pull in progress

vars == <<inst, pc, lastRes, evt, obs, hist, msgsLeft, failsLeft, list, dlErrChan,
          splitIn, splitOut, callIn, callOut>>

NewInstance(cfg) ==
    [config |-> cfg,
     openMode |-> "fileMode",
     cloudTrailFilesDir |-> "",
     files |-> <<>>,
     curFileNum |-> 0,
     evtJSONStrings |-> <<>>,
     evtJSONListPos |-> 0,
     s3 |-> [bucket |-> "", inited |-> FALSE, DownloadBufs |-> <<>>,
             lastDownloadedFileNum |-> 0, nFilledBufs |-> 0, curBuf |-> 0],
     queueURL |-> ""]

FreshEvt == [tsSet |-> FALSE, ts |-> 0, data |-> <<>>]

\* What one call did: op is "open" or "pull"; polled, pollErr, received and
\* deleted tell of the queue poll; opened is the index (from 0) of the file
\* the pull took from the file list, readErr and bytes what its read or
\* fetch returned, wave and failed the files a new wave fetched and those
\* whose fetch failed, split whether the record buffer was replaced;
\* popped is the position (from 0) of the record the pull took; wrote is
\* what evt.Writer().Write did: "" (not called), "ok", "error" or "short".
NoObs == [op |-> "none", polled |-> FALSE, pollErr |-> "", received |-> "",
          deleted |-> FALSE, opened |-> -1, readErr |-> "", bytes |-> <<>>,
          split |-> FALSE, wave |-> {}, failed |-> {}, popped |-> -1,
          wrote |-> ""]

PullObs == [NoObs EXCEPT !.op = "pull"]

\* ---------------------------------------------------------- openLocal
RECURSIVE WalkFiles(_, _)
WalkFiles(files, entries) ==
    IF entries = <<>> THEN files
    ELSE LET e == Head(entries) IN
         IF e.isDir THEN WalkFiles(files, Tail(entries))
         ELSE IF ~MatchesExt(Tok(e.name)) THEN WalkFiles(files, Tail(entries))
         ELSE WalkFiles(Append(files, fileInfo(e.name)), Tail(entries))

\* openLocal on a file system where os.Stat(params) succeeds or not
\* (exists) and filepath.Walk(params) visits `entries`.
openLocalOnLax(in, params, exists, entries) ==
    LET in1 == [in EXCEPT !.openMode = "fileMode", !.cloudTrailFilesDir = params] IN
    IF params = "" THEN [inst |-> in1, err |-> "error"]
    ELSE IF ~exists THEN [inst |-> in1, err |-> "error"]
    ELSE [inst |-> [in1 EXCEPT !.files = WalkFiles(@, entries)], err |-> ""]

openLocalOn(in, params, exists, entries) ==
    LET in1 == [in EXCEPT !.openMode = "fileMode", !.cloudTrailFilesDir = params] IN
    IF params = "" THEN [inst |-> in1, err |-> "error"]
    ELSE IF ~exists THEN [inst |-> in1, err |-> "error"]
    ELSE LET in2 == [in1 EXCEPT !.files = WalkFiles(@, entries)] IN
         IF Len(in2.files) = 0 THEN [inst |-> in2, err |-> "error"]
         ELSE [inst |-> in2, err |-> ""]

openLocal(in, params) ==
    openLocalOn(in, params, dirExists(params), WalkEntries(params))

\* ------------------------------------------------------------- initS3
\* make([][]byte, n) panics for a negative n.
InitS3Panics(in) == ~in.s3.inited /\ in.config.S3DownloadConcurrency < 0

initS3(in) ==
    IF ~in.s3.inited
    THEN [in EXCEPT !.s3.inited = TRUE,
                    !.s3.DownloadBufs =
                        [j \in 1..in.config.S3DownloadConcurrency |-> <<>>]]
    ELSE in

\* ---------------------------------------------------- chunkListOrigin
\* orgList[from : to]
SliceSeq(l, from, to) == SubSeq(l, from + 1, to)

\* divided[i] = ... : a write past the length make gave the slice panics.
ChunkPanic == << <<"panic">> >>

SetChunk(divided, i, chunk) ==
    IF divided = ChunkPanic \/ i >= Len(divided) THEN ChunkPanic
    ELSE [divided EXCEPT ![i + 1] = chunk]

RECURSIVE ChunkLoop(_, _, _, _, _)
ChunkLoop(orgList, chunkSize, prev, i, divided) ==
    IF prev < Len(orgList) - chunkSize
    THEN ChunkLoop(orgList, chunkSize, prev + chunkSize, i + 1,
                   SetChunk(divided, i, SliceSeq(orgList, prev, prev + chunkSize)))
    ELSE SetChunk(divided, i, SliceSeq(orgList, prev, Len(orgList)))

\* A chunking that keeps the whole list as one chunk.
chunkListOriginOneChunk(orgList, chunkSize) ==
    IF Len(orgList) = 0 \/ chunkSize < 1 THEN <<>> ELSE <<orgList>>

\* A chunking into chunks one origin longer than asked.
chunkListOriginWide(orgList, chunkSize) ==
    IF Len(orgList) = 0 \/ chunkSize < 1 THEN <<>>
    ELSE ChunkLoop(orgList, chunkSize + 1, 0, 0,
                   [c \in 1..((Len(orgList) + chunkSize) \div (chunkSize + 1))
                        |-> <<>>])

chunkListOrigin(orgList, chunkSize) ==
    IF Len(orgList) = 0 \/ chunkSize < 1 THEN <<>>
    ELSE ChunkLoop(orgList, chunkSize, 0, 0,
                   [c \in 1..((Len(orgList) + chunkSize - 1) \div chunkSize)
                        |-> <<>>])

\* ------------------------------------------------- the storage's listing
\* ListObjectsV2 with Delimiter "/": the common prefixes under a prefix.
RECURSIVE CommonPrefixLoop(_, _, _)
CommonPrefixLoop(keys, prefix, acc) ==
    IF keys = <<>> THEN acc
    ELSE
        LET k == Tok(Head(keys))
            rest == IF HasPrefix(k, prefix) THEN SubSeq(k, Len(prefix) + 1, Len(k))
                    ELSE <<>>
            cut == IF \E i \in 1..Len(rest) : rest[i] = "/"
                   THEN CHOOSE i \in 1..Len(rest) :
                            rest[i] = "/" /\ \A j \in 1..(i - 1) : rest[j] # "/"
                   ELSE 0
            cp == prefix \o SubSeq(rest, 1, cut)
        IN
        IF cut = 0 \/ (acc # <<>> /\ acc[Len(acc)] = cp)
        THEN CommonPrefixLoop(Tail(keys), prefix, acc)
        ELSE CommonPrefixLoop(Tail(keys), prefix, Append(acc, cp))

CommonPrefixes(prefix) == CommonPrefixLoop(TrailKeys, prefix, <<>>)

\* The keys under a prefix and after startAfter (<<>>: none), in order.
ListedKeys(prefix, startAfter) ==
    SelectSeq(TrailKeys,
              LAMBDA k : HasPrefix(Tok(k), prefix) /\ StrLess(startAfter, Tok(k)))

\* Keys on one page of a listing.
PageSize == 2

RECURSIVE Pages(_)
Pages(keys) ==
    IF Len(keys) <= PageSize THEN <<keys>>
    ELSE <<SubSeq(keys, 1, PageSize)>> \o Pages(SubSeq(keys, PageSize + 1, Len(keys)))

\* ------------------------------------------------------------- openS3
\* ParseInterval(config.S3Interval): the start and end times, each as the
\* tokens of its Format("2006/01/02/") and its Format("20060102T1504").
ZeroTime == [zero |-> TRUE, date |-> <<>>, ts |-> <<>>]
TimeAt(y, m, d, ts) == [zero |-> FALSE, date |-> <<y, "/", m, "/", d, "/">>, ts |-> <<ts>>]

ParseInterval(interval) ==
    CASE interval = "" -> [err |-> FALSE, start |-> ZeroTime, end |-> ZeroTime]
      [] interval = "2021-01-01T00:00:00Z-" ->
            [err |-> FALSE, start |-> TimeAt("2021", "01", "01", "20210101T0000"),
             end |-> ZeroTime]
      [] interval = "2021-01-01T00:00:00Z-2021-01-01T00:05:00Z" ->
            [err |-> FALSE, start |-> TimeAt("2021", "01", "01", "20210101T0000"),
             end |-> TimeAt("2021", "01", "01", "20210101T0005")]
      [] interval = "2021-01-01T00:05:00Z-2021-01-01T00:00:00Z" ->
            [err |-> FALSE, start |-> TimeAt("2021", "01", "01", "20210101T0005"),
             end |-> TimeAt("2021", "01", "01", "20210101T0000")]
      [] OTHER -> [err |-> TRUE, start |-> ZeroTime, end |-> ZeroTime]

RECURSIVE DropSpaces(_)
DropSpaces(l) == IF l # <<>> /\ Head(l) = " " THEN DropSpaces(Tail(l)) ELSE l

\* ^(?: *\d{12} *,?)*$
RECURSIVE accountListRE(_)
accountListRE(l) ==
    IF l = <<>> THEN TRUE
    ELSE LET l1 == DropSpaces(l) IN
         /\ l1 # <<>>
         /\ IsAccount(Head(l1))
         /\ LET l2 == DropSpaces(Tail(l1)) IN
            \/ accountListRE(Tail(l1))
            \/ accountListRE(l2)
            \/ (l2 # <<>> /\ Head(l2) = "," /\ accountListRE(Tail(l2)))

StripSlash(q) == IF q # <<>> /\ q[Len(q)] = "/" THEN SubSeq(q, 1, Len(q) - 1) ELSE q

\* /AWSLogs/(?:o-[a-z0-9]{10,32}/)?\d{12}/?$
awsLogsRE(prefix) ==
    LET q == StripSlash(prefix)
        n == Len(q)
    IN
    \/ /\ n >= 4
       /\ SubSeq(q, n - 3, n - 1) = <<"/", "AWSLogs", "/">>
       /\ IsAccount(q[n])
    \/ /\ n >= 6
       /\ SubSeq(q, n - 5, n - 3) = <<"/", "AWSLogs", "/">>
       /\ IsOrgId(q[n - 2])
       /\ q[n - 1] = "/"
       /\ IsAccount(q[n])

\* /AWSLogs(?:/o-[a-z0-9]{10,32})?/?$
awsLogsOrgRE(prefix) ==
    LET q == StripSlash(prefix)
        n == Len(q)
    IN
    \/ /\ n >= 2
       /\ SubSeq(q, n - 1, n) = <<"/", "AWSLogs">>
    \/ /\ n >= 4
       /\ SubSeq(q, n - 3, n - 1) = <<"/", "AWSLogs", "/">>
       /\ IsOrgId(q[n])

\* strings.Split(s, ",")
RECURSIVE SplitComma(_, _)
SplitComma(l, cur) ==
    IF l = <<>> THEN <<cur>>
    ELSE IF Head(l) = "," THEN <<cur>> \o SplitComma(Tail(l), <<>>)
    ELSE SplitComma(Tail(l), Append(cur, Head(l)))

RECURSIVE DropSpacesEnd(_)
DropSpacesEnd(l) ==
    IF l # <<>> /\ l[Len(l)] = " " THEN DropSpacesEnd(SubSeq(l, 1, Len(l) - 1)) ELSE l

TrimSpace(l) == DropSpacesEnd(DropSpaces(l))

\* if !strings.HasSuffix(intervalPrefix, "/") { intervalPrefix += "/" }
WithSlashAlways(prefix) == prefix \o <<"/">>

WithSlash(prefix) == IF HasSuffix(prefix, <<"/">>) THEN prefix ELSE prefix \o <<"/">>

\* The prefixes of the account list: intervalPrefix + account + "/CloudTrail/".
AccountPrefixes(intervalPrefix, s3AccountList) ==
    LET accounts == SplitComma(s3AccountList, <<>>) IN
    [i \in 1..Len(accounts) |->
        intervalPrefix \o TrimSpace(accounts[i]) \o <<"/", "CloudTrail", "/">>]

\* The prefixes of the accounts found in the bucket.
DiscoveredPrefixes(intervalPrefix) ==
    LET found == SelectSeq(CommonPrefixes(intervalPrefix), awsLogsRE) IN
    [i \in 1..Len(found) |-> found[i] \o <<"CloudTrail", "/">>]

\* The loop "for _, intervalPrefix := range intervalPrefixList": the
\* region enumeration of the prefixes whose index is in `failing` fails.
RECURSIVE RegionLoop(_, _, _, _, _)
RegionLoop(prefixes, i, failing, startTime, inputParams) ==
    IF i > Len(prefixes) THEN inputParams
    ELSE IF HasSuffix(prefixes[i], <<"/", "CloudTrail", "/">>) /\ i \notin failing THEN
        LET cps == CommonPrefixes(prefixes[i])
            new == [j \in 1..Len(cps) |->
                      [prefix |-> cps[j],
                       startAfter |-> IF ~startTime.zero
                                      THEN cps[j] \o startTime.date ELSE <<>>]]
        IN RegionLoop(prefixes, i + 1, failing, startTime, inputParams \o new)
    ELSE RegionLoop(prefixes, i + 1, failing, startTime, inputParams)

\* From "intervalPrefix := prefix" to the end of the if / else if / else
\* on the two patterns: the prefixes whose regions are enumerated.
IntervalPrefixList(prefix, s3AccountList) ==
    IF awsLogsRE(prefix) THEN <<WithSlash(prefix) \o <<"CloudTrail", "/">> >>
    ELSE IF awsLogsOrgRE(prefix) THEN
        IF s3AccountList # <<>>
        THEN AccountPrefixes(WithSlash(prefix), s3AccountList)
        ELSE DiscoveredPrefixes(WithSlash(prefix))
    ELSE <<prefix>>

\* openS3 up to the loop over the chunks.  The results are
\* [inst, err, inputParams, startTS, endTS, used]; used counts the listing
\* calls that failed (at most `left`).
PlanRet(in, err, inputParams, startTS, endTS, used) ==
    [inst |-> in, err |-> err, inputParams |-> inputParams,
     startTS |-> startTS, endTS |-> endTS, used |-> used]

openS3Plan(in, input, left) ==
    LET in0 == [in EXCEPT !.openMode = "s3Mode"]
        slashindex == IF \E i \in 1..Len(input) : input[i] = "/"
                      THEN CHOOSE i \in 1..Len(input) :
                               input[i] = "/" /\ \A j \in 1..(i - 1) : input[j] # "/"
                      ELSE 0
        bucket == input[1]
        prefix == IF slashindex = 0 THEN <<>>
                  ELSE SubSeq(input, slashindex + 1, Len(input))
        in1 == initS3([in0 EXCEPT !.s3.bucket = bucket])
        iv == ParseInterval(in.config.S3Interval)
        s3AccountList == in.config.S3AccountList
        isAcct == awsLogsRE(prefix)
        isOrg == ~isAcct /\ awsLogsOrgRE(prefix)
        discover == isOrg /\ s3AccountList = <<>>
        intervalPrefixList == IntervalPrefixList(prefix, s3AccountList)
        regionCalls == {i \in 1..Len(intervalPrefixList) :
                           HasSuffix(intervalPrefixList[i], <<"/", "CloudTrail", "/">>)}
    IN
    IF in.config.S3DownloadConcurrency < 1 THEN {PlanRet(in0, "error", <<>>, <<>>, <<>>, 0)}
    ELSE IF iv.err THEN {PlanRet(in1, "error", <<>>, <<>>, <<>>, 0)}
    ELSE IF ~accountListRE(s3AccountList) THEN {PlanRet(in1, "error", <<>>, <<>>, <<>>, 0)}
    ELSE
        \* the account discovery fails
        (IF discover /\ left > 0
         THEN {PlanRet(in1, "error", <<>>, <<>>, <<>>, 1)} ELSE {})
        \cup
        { LET found == RegionLoop(intervalPrefixList, 1, failing, iv.start, <<>>)
              startTS == IF Len(found) > 0 /\ ~iv.start.zero THEN iv.start.ts ELSE <<>>
              endTS == IF Len(found) > 0 /\ ~iv.start.zero /\ ~iv.end.zero
                       THEN iv.end.ts ELSE <<>>
              inputParams == IF Len(found) > 0 THEN found
                             ELSE <<[prefix |-> prefix, startAfter |-> <<>>]>>
          IN
          IF endTS # <<>> /\ StrLess(endTS, startTS)
          THEN PlanRet(in1, "error", <<>>, <<>>, <<>>, Cardinality(failing))
          ELSE PlanRet(in1, "", inputParams, startTS, endTS, Cardinality(failing))
        : failing \in {f \in SUBSET regionCalls : Cardinality(f) <= left} }

\* ----------------------------------------------------------- listKeys
\* .*_CloudTrail_[^_]+_([^_]+)Z_ : the index of the captured token, 0
\* when the key does not match.
PathTSIndex(path) ==
    LET hits == {i \in 1..(Len(path) - 4) :
                    /\ path[i] = "_CloudTrail_"
                    /\ path[i + 2] = "_"
                    /\ path[i + 4] = "Z_"}
    IN IF hits = {} THEN 0
       ELSE (CHOOSE i \in hits : \A j \in hits : j <= i) + 3

\* The filter of listKeys: the key is appended to the file list.
KeyAccepted(key, startTS, endTS) ==
    LET path == Tok(key)
        m == PathTSIndex(path)
        pathTS == <<path[m]>>
    IN
    /\ ~ ( /\ startTS # <<>>
           /\ m # 0
           /\ \/ StrLess(pathTS, startTS)
              \/ endTS # <<>> /\ StrLess(endTS, pathTS) )
    /\ MatchesExt(path)

\* ---------------------------------------------------- getMoreSQSFiles
\* The results are [inst, err, received, deleted]: err is "" (nil), "error"
\* or "panic"; received is the message the poll received ("" if none);
\* deleted says that DeleteMessage was called and succeeded.
SQSRet(in, err, m, deleted) ==
    [inst |-> in, err |-> err, received |-> m, deleted |-> deleted]

\* The loop over s3Event.Records.
RECURSIVE S3EventLoop(_, _, _, _)
S3EventLoop(in, recs, s3Init, lastBucket) ==
    IF recs = <<>> THEN [inst |-> in, err |-> ""]
    ELSE
        LET record == Head(recs)
            switch == ~s3Init \/ record.bucket # lastBucket
            in1 == IF switch THEN [in EXCEPT !.s3.bucket = record.bucket] ELSE in
        IN
        IF switch /\ ~s3Init /\ InitS3Panics(in1) THEN [inst |-> in1, err |-> "panic"]
        ELSE
            LET in2 == IF switch /\ ~s3Init THEN initS3(in1) ELSE in1
                in3 == [in2 EXCEPT !.files = Append(@, fileInfo(record.key))]
            IN S3EventLoop(in3, Tail(recs), TRUE, record.bucket)

\* An append at the front of the list.
RECURSIVE AppendKeysFront(_, _)
AppendKeysFront(files, keys) ==
    IF keys = <<>> THEN files
    ELSE <<fileInfo(Head(keys))>> \o AppendKeysFront(files, Tail(keys))

RECURSIVE AppendKeys(_, _)
AppendKeys(files, keys) ==
    IF keys = <<>> THEN files
    ELSE AppendKeys(Append(files, fileInfo(Head(keys))), Tail(keys))

\* What follows the receive (and the delete) of message m: the parse of its
\* body and the append of the files it names.
ProcessMessage(in, m) ==
    LET msg == Messages[m] IN
    IF ~msg.bodyJSON THEN [inst |-> in, err |-> "error"]
    ELSE IF msg.type = "" THEN [inst |-> in, err |-> "error"]
    ELSE IF msg.type # "Notification" THEN [inst |-> in, err |-> "error"]
    ELSE IF in.config.UseS3SNS THEN
        \* a message of the other shape unmarshals to an event without records
        S3EventLoop(in, IF msg.shape = "s3event" THEN msg.records ELSE <<>>,
                    FALSE, "")
    ELSE
        \* a message of the other shape unmarshals to no bucket and no keys
        LET bucket == IF msg.shape = "custom" THEN msg.bucket ELSE ""
            keys == IF msg.shape = "custom" THEN msg.keys ELSE <<>>
            in1 == [in EXCEPT !.s3.bucket = bucket]
        IN
        IF InitS3Panics(in1) THEN [inst |-> in1, err |-> "panic"]
        ELSE [inst |-> [initS3(in1) EXCEPT !.files = AppendKeys(@, keys)],
              err |-> ""]

\* Every outcome of one poll: the receive fails, finds no message, or
\* receives one of the messages still to come (left > 0); the delete, when
\* configured, fails or succeeds.
getMoreSQSFilesDeleteLast(in, left) ==
    {SQSRet(in, "error", "", FALSE), SQSRet(in, "", "", FALSE)}
    \cup
    UNION { LET r == ProcessMessage(in, m) IN
            (IF in.config.SQSDelete
             THEN {SQSRet(r.inst, "error", m, FALSE)} ELSE {})
            \cup {SQSRet(r.inst, r.err, m, in.config.SQSDelete)}
          : m \in IF left > 0 THEN MsgIds ELSE {} }

\* A poll that, finding no message, forgets the active bucket.
getMoreSQSFilesEmptyResets(in, left) ==
    {SQSRet(in, "error", "", FALSE),
     SQSRet([in EXCEPT !.s3.bucket = ""], "", "", FALSE)}
    \cup
    UNION { (IF in.config.SQSDelete
             THEN {SQSRet(in, "error", m, FALSE)} ELSE {})
            \cup
            {LET r == ProcessMessage(in, m)
             IN SQSRet(r.inst, r.err, m, in.config.SQSDelete)}
          : m \in IF left > 0 THEN MsgIds ELSE {} }

getMoreSQSFiles(in, left) ==
    {SQSRet(in, "error", "", FALSE), SQSRet(in, "", "", FALSE)}
    \cup
    UNION { (IF in.config.SQSDelete
             THEN {SQSRet(in, "error", m, FALSE)} ELSE {})
            \cup
            {LET r == ProcessMessage(in, m)
             IN SQSRet(r.inst, r.err, m, in.config.SQSDelete)}
          : m \in IF left > 0 THEN MsgIds ELSE {} }

\* ------------------------------------------------------------ openSQS
\* GetQueueUrl fails, or the first poll decides.
openSQS(in, left) ==
    LET in1 == [in EXCEPT !.openMode = "sqsMode"] IN
    {SQSRet(in1, "error", "", FALSE)}
    \cup getMoreSQSFiles([in1 EXCEPT !.queueURL = "url"], left)

\* ----------------------------------------------------- readNextFileS3
\* The results are [inst, bytes, err, wave, failed, used]: wave is the set
\* of indexes (from 0) of the files a new wave fetched, failed those whose
\* fetch failed.  A fetch fails when the object does not exist, or by one
\* of the `left` transient failures still to come (used counts them).
\* This is the call from its entry to its return; in a session the
\* goroutines of a wave run as steps of their own (WaveStart, Fetch, Send,
\* WaveJoin below), and come to these results when no other session acts.
S3Ret(in, bytes, err, wave, failed, used) ==
    [inst |-> in, bytes |-> bytes, err |-> err, wave |-> wave, failed |-> failed,
     used |-> used]

readNextFileS3(in, left) ==
    IF in.s3.curBuf < in.s3.nFilledBufs THEN
        {S3Ret([in EXCEPT !.s3.curBuf = @ + 1],
               in.s3.DownloadBufs[in.s3.curBuf + 1], "", {}, {}, 0)}
    ELSE
        LET k == in.s3.lastDownloadedFileNum
            n == min(in.config.S3DownloadConcurrency, Len(in.files) - k)
            in1 == [in EXCEPT !.s3.nFilledBufs = n]
            missing == {j \in 0..(n - 1) :
                          Stored(in.s3.bucket, in.files[k + j + 1].name) = NoSuchKey}
        IN
        IF n < 0 THEN {S3Ret(in1, <<>>, "panic", {}, {}, 0)}
        ELSE
        { LET failed == missing \cup transient
              bufs == [j \in 1..Len(in.s3.DownloadBufs) |->
                         IF j <= n /\ (j - 1) \notin failed
                         THEN Stored(in.s3.bucket, in.files[k + j].name)
                         ELSE in.s3.DownloadBufs[j]]
              in2 == [in1 EXCEPT !.s3.DownloadBufs = bufs]
              wave == {k + j : j \in 0..(n - 1)}
          IN
          IF failed # {} THEN S3Ret(in2, <<>>, "error", wave, {k + j : j \in failed},
                                   Cardinality(transient))
          ELSE IF Len(bufs) = 0 THEN
              S3Ret([in2 EXCEPT !.s3.lastDownloadedFileNum = @ + n, !.s3.curBuf = 1],
                    <<>>, "panic", wave, {}, 0)
          ELSE
              S3Ret([in2 EXCEPT !.s3.lastDownloadedFileNum = @ + n, !.s3.curBuf = 1],
                    bufs[1], "", wave, {}, 0)
        : transient \in {t \in SUBSET (0..(n - 1)) :
                            Cardinality(t) <= left /\ t \cap missing = {}} }

\* ------------------------------------------------------ readFileLocal
readFileLocal(in, fileName, left) ==
    LET body == Stored("local", fileName) IN
    IF body = NoSuchKey THEN {S3Ret(in, <<>>, "error", {}, {}, 0)}
    ELSE {S3Ret(in, body, "", {}, {}, 0)}
         \cup (IF left > 0 THEN {S3Ret(in, <<>>, "error", {}, {}, 1)} ELSE {})

\* ---------------------------------------------------------- nextEvent
\* The results are [inst, res, evt, obs, fails, msgs]: res is "ok" (nil),
\* "timeout" (sdk.ErrTimeout), "eof" (sdk.ErrEOF), "error" (any other
\* error) or "panic"; fails and msgs count the transient failures and the
\* queue messages the pull used up.
Ret(in, res, e, o, fails, msgs) ==
    [inst |-> in, res |-> res, evt |-> e, obs |-> o, fails |-> fails, msgs |-> msgs]

\* oCtx.evtJSONListPos++
AdvanceStuck(in) == in

Advance(in) == [in EXCEPT !.evtJSONListPos = @ + 1]

\* ets == "AwsCloudTrailInsight"
IsInsightNever(ets) == FALSE

IsInsight(ets) == ets = InsightSentinel

\* "Not json? Just skip this event." and the two returns for an eventTime
\* that is missing or no RFC3339 time.
SkipRecordFatal(in, e, o, fails, msgs) == {Ret(in, "error", e, o, fails, msgs)}

SkipRecord(in, e, o, fails, msgs) == {Ret(in, "timeout", e, o, fails, msgs)}

\* From "Extract the next record" to the end.
PopRecord(in, o, fails, msgs) ==
    IF Len(in.evtJSONStrings) # 0 THEN
        LET evtData == in.evtJSONStrings[in.evtJSONListPos + 1]
            in1 == Advance(in)
            o1 == [o EXCEPT !.popped = in.evtJSONListPos]
            timeVal == EventTimeString(evtData)
            typeVal == EventTypeString(evtData)
            stamped == [FreshEvt EXCEPT !.tsSet = TRUE, !.ts = UnixNano(timeVal)]
        IN
        IF ~JSONParses(evtData) THEN SkipRecord(in1, FreshEvt, o1, fails, msgs)
        ELSE IF timeVal = "" THEN SkipRecord(in1, FreshEvt, o1, fails, msgs)
        ELSE IF ~IsRFC3339(timeVal) THEN SkipRecord(in1, FreshEvt, o1, fails, msgs)
        ELSE IF typeVal = "" THEN {Ret(in1, "timeout", stamped, o1, fails, msgs)}
        ELSE IF IsInsight(typeVal) THEN
            {Ret(in1, "timeout", stamped, o1, fails, msgs)}
        ELSE
            \* evt.Writer().Write: all bytes, an error, or too few bytes
            { Ret(in1, "ok", [stamped EXCEPT !.data = evtData],
                  [o1 EXCEPT !.wrote = "ok"], fails, msgs),
              Ret(in1, "error", stamped, [o1 EXCEPT !.wrote = "error"], fails, msgs),
              Ret(in1, "error",
                  [stamped EXCEPT !.data = SubSeq(evtData, 1, Len(evtData) - 1)],
                  [o1 EXCEPT !.wrote = "short"], fails, msgs) }
    ELSE {Ret(in, "timeout", FreshEvt, o, fails, msgs)}

\* The two returns of sdk.ErrTimeout for a gzip stream that cannot be read.
GzipFailedRewind(in, o, fails, msgs) ==
    {Ret([in EXCEPT !.evtJSONListPos = 0], "timeout", FreshEvt, o, fails, msgs)}

GzipFailed(in, o, fails, msgs) == {Ret(in, "timeout", FreshEvt, o, fails, msgs)}

\* From "The file can be gzipped" on: what the pull does with the bytes
\* of the file it has read.
IngestStrict(in, isCompressed, bytes, o, fails, msgs) ==
    IF isCompressed /\ ~GunzipOK(bytes) THEN GzipFailed(in, o, fails, msgs)
    ELSE
        LET tmpStr == IF isCompressed THEN Gunzip(bytes) ELSE bytes
            in2 == [in EXCEPT !.evtJSONStrings = extractRecordStrings(tmpStr),
                              !.evtJSONListPos = 0]
        IN IF in2.evtJSONStrings = <<>>
           THEN {Ret(in2, "error", FreshEvt, [o EXCEPT !.split = TRUE], fails, msgs)}
           ELSE PopRecord(in2, [o EXCEPT !.split = TRUE], fails, msgs)

\* An ingest that reports end of stream for a file without records.
IngestEmptyEOF(in, isCompressed, bytes, o, fails, msgs) ==
    IF isCompressed /\ ~GunzipOK(bytes) THEN GzipFailed(in, o, fails, msgs)
    ELSE
        LET tmpStr == IF isCompressed THEN Gunzip(bytes) ELSE bytes
            in2 == [in EXCEPT !.evtJSONStrings = extractRecordStrings(tmpStr),
                              !.evtJSONListPos = 0]
        IN IF in2.evtJSONStrings = <<>>
           THEN {Ret(in2, "eof", FreshEvt, [o EXCEPT !.split = TRUE], fails, msgs)}
           ELSE PopRecord(in2, [o EXCEPT !.split = TRUE], fails, msgs)

Ingest(in, isCompressed, bytes, o, fails, msgs) ==
    IF isCompressed /\ ~GunzipOK(bytes) THEN GzipFailed(in, o, fails, msgs)
    ELSE
        LET tmpStr == IF isCompressed THEN Gunzip(bytes) ELSE bytes
            in2 == [in EXCEPT !.evtJSONStrings = extractRecordStrings(tmpStr),
                              !.evtJSONListPos = 0]
        IN PopRecord(in2, [o EXCEPT !.split = TRUE], fails, msgs)

\* An opening that takes the compression flag of the first file of the
\* list for every file.
OpenFileFirstFlag(in, o, left, msgs) ==
    LET file == in.files[in.curFileNum + 1]
        in1 == [in EXCEPT !.curFileNum = @ + 1]
        reads == IF in.openMode = "fileMode"
                 THEN readFileLocal(in1, file.name, left)
                 ELSE readNextFileS3(in1, left)
    IN
    UNION {
        LET o1 == [o EXCEPT !.opened = in.curFileNum, !.bytes = rd.bytes,
                            !.readErr = rd.err,
                            !.wave = rd.wave, !.failed = rd.failed]
        IN
        IF rd.err # "" THEN {Ret(rd.inst, rd.err, FreshEvt, o1, rd.used, msgs)}
        ELSE Ingest(rd.inst, in.files[1].isCompressed, rd.bytes, o1, rd.used, msgs)
        : rd \in reads }

\* From "file := oCtx.files[oCtx.curFileNum]" on.
OpenFile(in, o, left, msgs) ==
    LET file == in.files[in.curFileNum + 1]
        in1 == [in EXCEPT !.curFileNum = @ + 1]
        reads == IF in.openMode = "fileMode"
                 THEN readFileLocal(in1, file.name, left)
                 ELSE readNextFileS3(in1, left)
    IN
    UNION {
        LET o1 == [o EXCEPT !.opened = in.curFileNum, !.bytes = rd.bytes,
                            !.readErr = rd.err,
                            !.wave = rd.wave, !.failed = rd.failed]
        IN
        IF rd.err # "" THEN {Ret(rd.inst, rd.err, FreshEvt, o1, rd.used, msgs)}
        ELSE Ingest(rd.inst, file.isCompressed, rd.bytes, o1, rd.used, msgs)
        : rd \in reads }

\* "If after trying, there are no additional files, return timeout."
NoMoreFilesEOF(in, o, msgs) == {Ret(in, "eof", FreshEvt, o, 0, msgs)}

NoMoreFiles(in, o, msgs) == {Ret(in, "timeout", FreshEvt, o, 0, msgs)}

\* "Otherwise, return EOF."
EndOfFilesTimeout(in) == {Ret(in, "timeout", FreshEvt, PullObs, 0, 0)}

EndOfFilesRewind(in) == {Ret([in EXCEPT !.curFileNum = 0], "eof", FreshEvt, PullObs, 0, 0)}

EndOfFiles(in) == {Ret(in, "eof", FreshEvt, PullObs, 0, 0)}

nextEvent(in, fLeft, mLeft) ==
    IF in.evtJSONListPos >= Len(in.evtJSONStrings) THEN
        IF in.curFileNum >= Len(in.files) THEN
            IF in.openMode = "sqsMode" THEN
                UNION {
                    LET o == [PullObs EXCEPT !.polled = TRUE, !.pollErr = p.err,
                                             !.received = p.received,
                                             !.deleted = p.deleted]
                        msgs == IF p.received = "" THEN 0 ELSE 1
                    IN
                    IF p.err # "" THEN {Ret(p.inst, p.err, FreshEvt, o, 0, msgs)}
                    ELSE IF p.inst.curFileNum >= Len(p.inst.files) THEN
                        NoMoreFiles(p.inst, o, msgs)
                    ELSE OpenFile(p.inst, o, fLeft, msgs)
                    : p \in getMoreSQSFiles(in, mLeft) }
            ELSE EndOfFiles(in)
        ELSE OpenFile(in, PullObs, fLeft, 0)
    ELSE PopRecord(in, PullObs, 0, 0)

\* ------------------------------------------------------ configurations
DValues == (-1)..MaxD

Config(scheme, dir, input, d, interval, accounts, del, sns) ==
    [scheme |-> scheme, localDir |-> dir, s3Input |-> input,
     S3DownloadConcurrency |-> d, S3Interval |-> interval,
     S3AccountList |-> accounts, SQSDelete |-> del, UseS3SNS |-> sns]

\* s3://trail/<prefix>, after the "s3://"
S3Inputs ==
    { <<"trail", "/", "p", "/", "AWSLogs", "/", Acct1>>,
      <<"trail", "/", "p", "/", "AWSLogs", "/">>,
      <<"trail", "/">> \o RegionDir(Acct1, "us-east-1"),
      <<"trail">> }

S3Intervals ==
    { "", "2021-01-01T00:00:00Z-2021-01-01T00:05:00Z",
      "2021-01-01T00:05:00Z-2021-01-01T00:00:00Z", "5x" }

S3AccountLists == { <<>>, <<Acct2, ",", " ", Acct1>>, <<"12345">> }

Configs ==
    { Config("file", dir, <<>>, 1, "", <<>>, FALSE, FALSE) : dir \in LocalParams }
    \cup
    { Config("s3", "", c[1], c[2], c[3], c[4], FALSE, FALSE) :
        c \in S3Inputs \X DValues \X S3Intervals \X S3AccountLists }
    \cup
    { Config("sqs", "", <<>>, c[1], "", <<>>, c[2], c[3]) :
        c \in DValues \X BOOLEAN \X BOOLEAN }

\* --------------------------------------------------------------- Init
NoList == [chunks |-> <<>>, cur |-> 0, startTS |-> <<>>, endTS |-> <<>>,
           workers |-> <<>>]

\* History: fatal, a pull returned an error; src, the index of the file whose
\* records fill the buffer; lastEmit, the file and position of the last
\* record emitted; eofs and emptyPolls, the pulls in a row (counted to 2)
\* that returned end of stream, or polled and received nothing;
\* listFailed, a listing call of openS3 failed; failChunk, the chunk in
\* which a listKeys worker failed.
\* The Downloader's part: slotFile holds <<j, f>> when the latest fetch
\* into slot j put the body of file f there, unread the slots the latest wave filled
\* that no pull has been served yet, joinOk whether the latest wave's join
\* found no error, fetched the files a fetch has brought in, refetched
\* those brought in more than once, opened the files whose body a pull has
\* split, reopened those whose body was split more than once, fetchFailed whether a fetch of
\* the session has failed.
NoHist == [fatal |-> FALSE, src |-> -1, lastEmit |-> <<-1, -1>>,
           eofs |-> 0, emptyPolls |-> 0,
           listFailed |-> FALSE, failChunk |-> 0,
           slotFile |-> {}, unread |-> {}, joinOk |-> FALSE,
           fetched |-> {}, refetched |-> {}, opened |-> {}, reopened |-> {},
           fetchFailed |-> FALSE]

NoCall == [done |-> FALSE]

\* The wave of fetches of the pull in progress: pre and left are the
\* instance and the failures and messages left when the pull was called, o
\* what the pull has done before the wave (its poll), opened the file the
\* pull took, workers the goroutine of each slot ("run" before its
\* Download returns, "send" at dlErrChan <- err,
\* "blocked" in a send on the channel dlErrChan refers to, "stranded" in a
\* send on a channel it no longer refers to, "done" after Done()), failed
\* the files whose Download failed, cap the capacity of the channel
\* dlErrChan refers to, done that the pull has returned.
NoWave == [done |-> FALSE, opened |-> -1, workers |-> <<>>, failed |-> {},
           pre |-> <<>>, left |-> <<0, 0>>, o |-> NoObs, cap |-> 0]
NoSplitIn == [objs |-> <<>>, bytes |-> <<>>]
NoSplit == [done |-> FALSE, ranges |-> <<>>, res |-> <<>>]

Init ==
    /\ inst \in {NewInstance(cfg) : cfg \in Configs}
    /\ pc = "closed"
    /\ lastRes = "none"
    /\ evt = FreshEvt
    /\ obs = NoObs
    /\ hist = NoHist
    /\ msgsLeft = MaxMsgs
    /\ failsLeft = MaxFails
    /\ list = NoList
    /\ dlErrChan = <<>>
    /\ splitIn = NoSplitIn
    /\ splitOut = NoSplit
    /\ callIn = NoCall
    /\ callOut = NoWave

\* ------------------------------------------------------------ actions
PcAfter(err) == IF err = "" THEN "open" ELSE IF err = "panic" THEN "crashed" ELSE "failed"
ResOf(err) == IF err = "" THEN "ok" ELSE err

OpenLocal ==
    /\ pc = "closed"
    /\ inst.config.scheme = "file"
    /\ LET r == openLocal(inst, inst.config.localDir) IN
        /\ inst' = r.inst
        /\ pc' = PcAfter(r.err)
        /\ lastRes' = ResOf(r.err)
        /\ obs' = [NoObs EXCEPT !.op = "open"]
    /\ UNCHANGED <<evt, hist, msgsLeft, failsLeft, list, dlErrChan, splitIn, splitOut, callIn, callOut>>

OpenSQS ==
    /\ pc = "closed"
    /\ inst.config.scheme = "sqs"
    /\ \E r \in openSQS(inst, msgsLeft) :
        /\ inst' = r.inst
        /\ pc' = PcAfter(r.err)
        /\ lastRes' = ResOf(r.err)
        /\ obs' = [NoObs EXCEPT !.op = "open",
                                !.polled = (r.inst.queueURL # ""),
                                !.pollErr = r.err,
                                !.received = r.received, !.deleted = r.deleted]
        /\ msgsLeft' = msgsLeft - (IF r.received = "" THEN 0 ELSE 1)
    /\ UNCHANGED <<evt, hist, failsLeft, list, dlErrChan, splitIn, splitOut, callIn, callOut>>

\* A listKeys goroutine at its start: the paginator has its pages to come.
NewWorker(params) ==
    [pages |-> Pages(ListedKeys(params.prefix, params.startAfter)),
     objs |-> <<>>, phase |-> "run", key |-> "", seen |-> <<>>]

LaunchChunk(chunk) == [i \in 1..Len(chunk) |-> NewWorker(chunk[i])]

\* openS3 up to the start of the workers of the first chunk.
OpenS3 ==
    /\ pc = "closed"
    /\ inst.config.scheme = "s3"
    /\ \E r \in openS3Plan(inst, inst.config.s3Input, failsLeft) :
        /\ inst' = r.inst
        /\ failsLeft' = failsLeft - r.used
        /\ hist' = [hist EXCEPT !.listFailed = (r.used > 0)]
        /\ IF r.err # ""
           THEN /\ pc' = "failed"
                /\ lastRes' = "error"
                /\ UNCHANGED <<list, dlErrChan>>
           ELSE LET chunks == chunkListOrigin(r.inputParams,
                                              inst.config.S3DownloadConcurrency)
                IN /\ pc' = "listing"
                   /\ lastRes' = "none"
                   /\ dlErrChan' = <<>>
                   /\ list' = [chunks |-> chunks, cur |-> 1,
                               startTS |-> r.startTS, endTS |-> r.endTS,
                               workers |-> LaunchChunk(chunks[1])]
        /\ obs' = [NoObs EXCEPT !.op = "open"]
    /\ UNCHANGED <<evt, msgsLeft, splitIn, splitOut, callIn, callOut>>

\* paginator.HasMorePages / NextPage of worker w: no page is left and the
\* worker ends, or the next page arrives, or the call fails and the worker
\* sends the error and ends.
ListPage(w) ==
    /\ pc = "listing"
    /\ list.workers[w].phase = "run"
    /\ list.workers[w].objs = <<>>
    /\ LET wk == list.workers[w] IN
       \/ /\ wk.pages = <<>>
          /\ list' = [list EXCEPT !.workers[w].phase = "done"]
          /\ UNCHANGED <<dlErrChan, failsLeft, hist>>
       \/ /\ wk.pages # <<>>
          /\ list' = [list EXCEPT !.workers[w].objs = Head(wk.pages),
                                  !.workers[w].pages = Tail(wk.pages)]
          /\ UNCHANGED <<dlErrChan, failsLeft, hist>>
       \/ /\ wk.pages # <<>>
          /\ failsLeft > 0
          /\ Len(dlErrChan) < inst.config.S3DownloadConcurrency
          /\ failsLeft' = failsLeft - 1
          /\ dlErrChan' = Append(dlErrChan, "err")
          /\ hist' = [hist EXCEPT !.listFailed = TRUE, !.failChunk = list.cur]
          /\ list' = [list EXCEPT !.workers[w].phase = "done"]
    /\ UNCHANGED <<inst, pc, lastRes, evt, obs, msgsLeft, splitIn, splitOut, callIn, callOut>>

\* Worker w takes the next object of its page; for an accepted key it
\* reads oCtx.files, the first half of oCtx.files = append(oCtx.files, fi).
ListRead(w) ==
    /\ pc = "listing"
    /\ list.workers[w].phase = "run"
    /\ list.workers[w].objs # <<>>
    /\ LET wk == list.workers[w]
           key == Head(wk.objs)
       IN IF KeyAccepted(key, list.startTS, list.endTS)
          THEN list' = [list EXCEPT !.workers[w].objs = Tail(wk.objs),
                                    !.workers[w].phase = "write",
                                    !.workers[w].key = key,
                                    !.workers[w].seen = inst.files]
          ELSE list' = [list EXCEPT !.workers[w].objs = Tail(wk.objs)]
    /\ UNCHANGED <<inst, pc, lastRes, evt, obs, hist, msgsLeft, failsLeft, dlErrChan,
                   splitIn, splitOut, callIn, callOut>>

\* The second half: worker w stores the appended slice in oCtx.files.
ListWrite(w) ==
    /\ pc = "listing"
    /\ list.workers[w].phase = "write"
    /\ inst' = [inst EXCEPT !.files = Append(list.workers[w].seen,
                                             fileInfo(list.workers[w].key))]
    /\ list' = [list EXCEPT !.workers[w].phase = "run",
                            !.workers[w].key = "",
                            !.workers[w].seen = <<>>]
    /\ UNCHANGED <<pc, lastRes, evt, obs, hist, msgsLeft, failsLeft, dlErrChan,
                   splitIn, splitOut, callIn, callOut>>

\* DownloadWg.Wait() has returned: the select on dlErrChan, then the next
\* chunk or the end of openS3.
ChunkJoin ==
    /\ pc = "listing"
    /\ \A w \in 1..Len(list.workers) : list.workers[w].phase = "done"
    /\ IF dlErrChan # <<>>
       THEN /\ pc' = "failed"
            /\ lastRes' = "error"
            /\ dlErrChan' = Tail(dlErrChan)
            /\ UNCHANGED list
       ELSE IF list.cur < Len(list.chunks)
       THEN /\ list' = [list EXCEPT !.cur = @ + 1,
                                    !.workers = LaunchChunk(list.chunks[list.cur + 1])]
            /\ dlErrChan' = <<>>
            /\ UNCHANGED <<pc, lastRes>>
       ELSE /\ pc' = "open"
            /\ lastRes' = "ok"
            /\ list' = [list EXCEPT !.workers = <<>>]
            /\ UNCHANGED dlErrChan
    /\ UNCHANGED <<inst, evt, obs, hist, msgsLeft, failsLeft, splitIn, splitOut, callIn, callOut>>

\* One call of nextEvent.  A call that starts a wave of fetches takes
\* several steps (WaveStart, the goroutines' Fetch and Send, WaveJoin); any
\* other call is the one step Pull.
\* The instance as it was when the call in progress, or about to be made,
\* was made.
PullPre == IF pc = "fetching" THEN callOut.pre ELSE inst

\* The pull with outcome r opened a file through the Downloader, and the
\* Downloader had no slot left to serve: it started a wave.
WaveStarts(r) ==
    /\ r.obs.opened >= 0
    /\ PullPre.openMode # "fileMode"
    /\ PullPre.s3.curBuf >= PullPre.s3.nFilledBufs

\* The slots the wave of the pull filled, and the slot the pull was
\* served (-1: none).
FilledSlots(r) ==
    {f - PullPre.s3.lastDownloadedFileNum : f \in r.obs.wave \ r.obs.failed}

ServedSlot(r) ==
    IF r.obs.opened < 0 \/ PullPre.openMode = "fileMode" \/ r.obs.readErr # "" THEN -1
    ELSE IF WaveStarts(r) THEN 0
    ELSE PullPre.s3.curBuf

SlotFileAfter(r) ==
    IF WaveStarts(r)
    THEN {p \in hist.slotFile : p[1] \notin FilledSlots(r)}
         \cup {<<j, PullPre.s3.lastDownloadedFileNum + j>> : j \in FilledSlots(r)}
    ELSE hist.slotFile

\* The file whose body the pull split (-1: none).
SplitFile(r) ==
    IF ~r.obs.split THEN -1
    ELSE IF PullPre.openMode = "fileMode" THEN r.obs.opened
    ELSE IF \E p \in SlotFileAfter(r) : p[1] = ServedSlot(r)
    THEN (CHOOSE p \in SlotFileAfter(r) : p[1] = ServedSlot(r))[2]
    ELSE -1

\* What the session's history is after a pull with outcome r.
PullHist(r) ==
    [hist EXCEPT
       !.slotFile = SlotFileAfter(r),
       !.unread = (IF WaveStarts(r) THEN FilledSlots(r) ELSE @) \ {ServedSlot(r)},
       !.joinOk = IF WaveStarts(r) THEN r.obs.readErr = "" ELSE @,
       !.fetched = @ \cup (r.obs.wave \ r.obs.failed),
       !.refetched = @ \cup ((r.obs.wave \ r.obs.failed) \cap hist.fetched),
       !.opened = @ \cup ({SplitFile(r)} \ {-1}),
       !.reopened = @ \cup ({SplitFile(r)} \cap hist.opened),
       !.fatal = @ \/ r.res \in {"error", "panic"},
       !.fetchFailed = @ \/ r.obs.failed # {},
       !.eofs = IF r.res = "eof" THEN min(@ + 1, 2) ELSE 0,
       !.emptyPolls = IF r.obs.polled /\ r.obs.pollErr = ""
                         /\ r.obs.received = ""
                      THEN min(@ + 1, 2) ELSE 0,
       !.src = IF r.obs.split THEN r.obs.opened ELSE @,
       !.lastEmit = IF r.res = "ok"
                    THEN <<IF r.obs.split THEN r.obs.opened ELSE hist.src,
                           r.obs.popped>>
                    ELSE @]

Pull ==
    /\ pc = "open"
    /\ \E r \in nextEvent(inst, failsLeft, msgsLeft) :
        /\ r.obs.wave = {}
        /\ inst' = r.inst
        /\ lastRes' = r.res
        /\ evt' = r.evt
        /\ obs' = r.obs
        /\ failsLeft' = failsLeft - r.fails
        /\ msgsLeft' = msgsLeft - r.msgs
        /\ pc' = IF r.res = "panic" THEN "crashed" ELSE "open"
        /\ hist' = PullHist(r)
    /\ UNCHANGED <<list, dlErrChan, splitIn, splitOut, callIn, callOut>>

\* ------------------------------------------- the wave of fetches
\* readNextFileS3 from "dlErrChan = make(...)" to the start of the
\* goroutines, for an instance `in` whose curFileNum nextEvent has already
\* incremented: nothing when a slot is left to serve or no goroutine is
\* started.
PullLaunch(in, o, msgs) ==
    LET k == in.s3.lastDownloadedFileNum
        n == min(in.config.S3DownloadConcurrency, Len(in.files) - k)
    IN IF in.openMode # "fileMode" /\ in.s3.curBuf >= in.s3.nFilledBufs /\ n >= 1
       THEN {[inst |-> [in EXCEPT !.curFileNum = @ + 1, !.s3.nFilledBufs = n],
              o |-> [o EXCEPT !.opened = in.curFileNum], msgs |-> msgs, n |-> n]}
       ELSE {}

\* nextEvent from its start to the start of the goroutines of a wave: the
\* poll of a queue session whose files are all opened comes before.
PullLaunches(in, mLeft) ==
    IF in.evtJSONListPos >= Len(in.evtJSONStrings) THEN
        IF in.curFileNum >= Len(in.files) THEN
            IF in.openMode = "sqsMode" THEN
                UNION {
                    LET o == [PullObs EXCEPT !.polled = TRUE, !.pollErr = p.err,
                                             !.received = p.received,
                                             !.deleted = p.deleted]
                        msgs == IF p.received = "" THEN 0 ELSE 1
                    IN
                    IF p.err # "" \/ p.inst.curFileNum >= Len(p.inst.files) THEN {}
                    ELSE PullLaunch(p.inst, o, msgs)
                    : p \in getMoreSQSFiles(in, mLeft) }
            ELSE {}
        ELSE PullLaunch(in, PullObs, 0)
    ELSE {}

\* The pull is about to call readNextFileS3 with no slot left to serve.
WaveNeeded ==
    /\ pc = "open"
    /\ inst.openMode = "s3Mode"
    /\ inst.evtJSONListPos >= Len(inst.evtJSONStrings)
    /\ inst.curFileNum < Len(inst.files)
    /\ inst.s3.curBuf >= inst.s3.nFilledBufs

\* make(chan error, oCtx.config.S3DownloadConcurrency)
ErrChanCapOne(d) == 1

ErrChanCap(d) == d

\* nextEvent up to readNextFileS3's "go oCtx.s3Download(...)" loop.
WaveStart ==
    /\ pc = "open"
    /\ \E l \in PullLaunches(inst, msgsLeft) :
          /\ inst' = l.inst
          /\ msgsLeft' = msgsLeft - l.msgs
          /\ callOut' = [done |-> FALSE, opened |-> l.o.opened,
                         workers |-> [j \in 1..l.n |-> "run"], failed |-> {},
                         pre |-> inst, left |-> <<failsLeft, msgsLeft>>, o |-> l.o,
                         cap |-> ErrChanCap(l.inst.config.S3DownloadConcurrency)]
    /\ dlErrChan' = <<>>
    /\ pc' = "fetching"
    /\ UNCHANGED <<lastRes, evt, obs, hist, failsLeft, list, splitIn, splitOut,
                   callIn>>

\* downloader.Download of the goroutine of slot j - 1 returns: the body,
\* which the goroutine stores in its slot, or an error (the object does
\* not exist, or one of the transient failures still to come).
Fetch(j) ==
    /\ pc = "fetching"
    /\ callOut.workers[j] = "run"
    /\ LET f == inst.s3.lastDownloadedFileNum + j - 1
           body == Stored(inst.s3.bucket, inst.files[f + 1].name)
       IN \/ /\ body # NoSuchKey
             /\ inst' = [inst EXCEPT !.s3.DownloadBufs[j] = body]
             /\ callOut' = [callOut EXCEPT !.workers[j] = "done"]
             /\ UNCHANGED failsLeft
          \/ /\ body = NoSuchKey \/ failsLeft > 0
             /\ callOut' = [callOut EXCEPT !.workers[j] = "send",
                                            !.failed = @ \cup {f}]
             /\ failsLeft' = IF body = NoSuchKey THEN failsLeft ELSE failsLeft - 1
             /\ UNCHANGED inst
    /\ UNCHANGED <<pc, lastRes, evt, obs, hist, msgsLeft, list, dlErrChan,
                   splitIn, splitOut, callIn>>

\* dlErrChan <- err, on the channel the variable refers to when the
\* statement runs: the goroutine goes on when the channel has room, and
\* waits in the send on that channel when it has none.
Send(j) ==
    /\ pc = "fetching"
    /\ callOut.workers[j] \in {"send", "blocked"}
    /\ IF Len(dlErrChan) < callOut.cap
       THEN /\ dlErrChan' = Append(dlErrChan, "err")
            /\ callOut' = [callOut EXCEPT !.workers[j] = "done"]
       ELSE /\ callOut.workers[j] = "send"
            /\ callOut' = [callOut EXCEPT !.workers[j] = "blocked"]
            /\ UNCHANGED dlErrChan
    /\ UNCHANGED <<inst, pc, lastRes, evt, obs, hist, msgsLeft, failsLeft, list,
                   splitIn, splitOut, callIn>>

WaveAllDone == \A j \in 1..Len(callOut.workers) : callOut.workers[j] = "done"

\* DownloadWg.Wait() has returned: the select on dlErrChan, and the rest
\* of the pull.
WaveJoin ==
    /\ pc = "fetching"
    /\ WaveAllDone
    /\ LET k == inst.s3.lastDownloadedFileNum
           n == inst.s3.nFilledBufs
           o == [callOut.o EXCEPT !.wave = k..(k + n - 1),
                                  !.failed = callOut.failed]
           outs == IF dlErrChan # <<>>
                   THEN {Ret(inst, "error", FreshEvt,
                             [o EXCEPT !.readErr = "error"], 0, 0)}
                   ELSE Ingest([inst EXCEPT !.s3.lastDownloadedFileNum = @ + n,
                                            !.s3.curBuf = 1],
                               inst.files[callOut.opened + 1].isCompressed,
                               inst.s3.DownloadBufs[1],
                               [o EXCEPT !.bytes = inst.s3.DownloadBufs[1]],
                               0, 0)
       IN \E r \in outs :
            /\ inst' = r.inst
            /\ lastRes' = r.res
            /\ evt' = r.evt
            /\ obs' = r.obs
            /\ hist' = PullHist(r)
    /\ dlErrChan' = IF dlErrChan # <<>> THEN Tail(dlErrChan) ELSE dlErrChan
    /\ callOut' = [callOut EXCEPT !.done = TRUE]
    /\ pc' = "open"
    /\ UNCHANGED <<msgsLeft, failsLeft, list, splitIn, splitOut, callIn>>

WaveWork == \E j \in 1..MaxD : j <= Len(callOut.workers) /\ (Fetch(j) \/ Send(j))

\* ENABLED of a step of a pull, as a state predicate.
WaveStartable == pc = "open" /\ PullLaunches(inst, msgsLeft) # {}

WaveWorkable ==
    /\ pc = "fetching"
    /\ \/ WaveAllDone
       \/ \E j \in 1..Len(callOut.workers) :
             \/ callOut.workers[j] = "run"
             \/ callOut.workers[j] = "send"
             \/ /\ callOut.workers[j] = "blocked"
                /\ Len(dlErrChan) < callOut.cap

\* ENABLED <<Pull>>_vars as a state predicate: the session is open and
\* some outcome of the pull changes the state.
PullChanges ==
    /\ pc = "open"
    /\ \E r \in nextEvent(inst, failsLeft, msgsLeft) :
          /\ r.obs.wave = {}
          /\ \/ <<r.inst, r.res, r.evt, r.obs>> # <<inst, lastRes, evt, obs>>
             \/ r.fails # 0 \/ r.msgs # 0 \/ r.res = "panic"
             \/ PullHist(r) # hist

Next ==
    \/ OpenLocal
    \/ OpenSQS
    \/ OpenS3
    \/ \E w \in 1..MaxD : w <= Len(list.workers) /\ ListPage(w)
    \/ \E w \in 1..MaxD : w <= Len(list.workers) /\ ListRead(w)
    \/ \E w \in 1..MaxD : w <= Len(list.workers) /\ ListWrite(w)
    \/ ChunkJoin
    \/ Pull
    \/ WaveStart
    \/ WaveWork
    \/ WaveJoin

Spec == Init /\ [][Next]_vars

\* The caller keeps pulling an open session and the goroutines of a wave
\* run on: WF_vars(PullStep), written with a state predicate for
\* ENABLED <<PullStep>>_vars.
PullStep == Pull \/ WaveStart \/ WaveWork \/ WaveJoin

PullFair ==
    []<>(~(PullChanges \/ WaveStartable \/ WaveWorkable))
    \/ []<><<PullStep>>_vars

\* The sessions that have an end: local and direct S3 sessions.
InitLive == Init /\ inst.config.scheme # "sqs"

NextLive ==
    \/ OpenLocal
    \/ OpenS3
    \/ \E w \in 1..MaxD : w <= Len(list.workers) /\ ListPage(w)
    \/ \E w \in 1..MaxD : w <= Len(list.workers) /\ ListRead(w)
    \/ \E w \in 1..MaxD : w <= Len(list.workers) /\ ListWrite(w)
    \/ ChunkJoin
    \/ Pull
    \/ WaveStart
    \/ WaveWork
    \/ WaveJoin

SpecLive == InitLive /\ [][NextLive]_vars /\ PullFair

\* ------------------------------------------- the record splitter alone
\* Inner objects for the envelopes given to extractRecordStrings: empty,
\* flat, with one nested object, with nested objects side by side and in
\* one another.
SplitObjects ==
    { <<"{", "}">>,
      <<"{", "T", "E", "}">>,
      <<"{", "U", "E", "u", "{", "t", "I", "}", "}">>,
      <<"{", "u", "{", "}", ",", "u", "{", "u", "{", "E", "}", "}", "}">> }

RECURSIVE SeqsUpTo(_, _)
SeqsUpTo(S, n) ==
    IF n = 0 THEN {<<>>}
    ELSE LET shorter == SeqsUpTo(S, n - 1) IN
         shorter \cup {Append(q, x) : q \in shorter, x \in S}

InitSplit ==
    /\ splitIn \in {[objs |-> objs, bytes |-> Envelope(objs)] :
                       objs \in SeqsUpTo(SplitObjects, MaxRecs)}
    /\ splitOut = NoSplit
    /\ callIn = NoCall
    /\ callOut = NoCall
    /\ inst = NewInstance(Config("file", "", <<>>, 1, "", <<>>, FALSE, FALSE))
    /\ pc = "split"
    /\ lastRes = "none"
    /\ evt = FreshEvt
    /\ obs = NoObs
    /\ hist = NoHist
    /\ msgsLeft = 0
    /\ failsLeft = 0
    /\ list = NoList
    /\ dlErrChan = <<>>

\* extractRecordStrings(tmpStr, &oCtx.evtJSONStrings)
DoSplit ==
    /\ pc = "split"
    /\ ~splitOut.done
    /\ splitOut' = [done |-> TRUE,
                    ranges |-> ExtractRanges(splitIn.bytes),
                    res |-> extractRecordStrings(splitIn.bytes)]
    /\ UNCHANGED <<inst, pc, lastRes, evt, obs, hist, msgsLeft, failsLeft, list,
                   dlErrChan, splitIn, callIn, callOut>>

NextSplit == DoSplit

SpecSplit == InitSplit /\ [][NextSplit]_vars

\* ------------------------------------- the prefix derivation alone
\* The prefixes given to openS3 after the bucket: a base path, then one of
\* the shapes the two patterns tell apart, with or without a final "/".
ResolveShapes == {"account", "orgaccount", "org", "orgid", "region", "none"}

ShapeTail(shape, acct) ==
    CASE shape = "account" -> <<"/", "AWSLogs", "/", acct>>
      [] shape = "orgaccount" -> <<"/", "AWSLogs", "/", "o-exampleorgid", "/", acct>>
      [] shape = "org" -> <<"/", "AWSLogs">>
      [] shape = "orgid" -> <<"/", "AWSLogs", "/", "o-exampleorgid">>
      [] shape = "region" ->
            <<"/", "AWSLogs", "/", acct, "/", "CloudTrail", "/", "us-east-1">>
      [] OTHER -> <<>>

ResolveInputs ==
    { [shape |-> sh, slash |-> sl, acct |-> a,
       prefix |-> <<"p">> \o ShapeTail(sh, a) \o (IF sl THEN <<"/">> ELSE <<>>),
       accounts |-> l] :
        sh \in ResolveShapes, sl \in BOOLEAN, a \in {Acct1, Acct2},
        l \in SeqsUpTo({Acct1, Acct2, ",", " ", "12345"}, MaxAcctTokens) }

InitResolve ==
    /\ callIn \in ResolveInputs
    /\ callOut = NoCall
    /\ splitIn = NoSplitIn
    /\ splitOut = NoSplit
    /\ inst = NewInstance(Config("s3", "", <<>>, 1, "", <<>>, FALSE, FALSE))
    /\ pc = "resolve"
    /\ lastRes = "none"
    /\ evt = FreshEvt
    /\ obs = NoObs
    /\ hist = NoHist
    /\ msgsLeft = 0
    /\ failsLeft = 0
    /\ list = NoList
    /\ dlErrChan = <<>>

\* openS3 from the check of the account list to the prefix list.
DoResolve ==
    /\ pc = "resolve"
    /\ ~callOut.done
    /\ callOut' = IF ~accountListRE(callIn.accounts)
                  THEN [done |-> TRUE, err |-> TRUE, list |-> <<>>]
                  ELSE [done |-> TRUE, err |-> FALSE,
                        list |-> IntervalPrefixList(callIn.prefix, callIn.accounts)]
    /\ UNCHANGED <<inst, pc, lastRes, evt, obs, hist, msgsLeft, failsLeft, list,
                   dlErrChan, splitIn, splitOut, callIn>>

NextResolve == DoResolve

SpecResolve == InitResolve /\ [][NextResolve]_vars

\* ------------------------------------------------- openLocal alone
\* What a walk may visit, in lexical order: directories (one of them with
\* a matching name) and files; kind is what the entry is.
WalkPool ==
    << [name |-> "logs", isDir |-> TRUE, kind |-> "dir"],
       [name |-> "logs/a.json", isDir |-> FALSE, kind |-> "json"],
       [name |-> "logs/b.json.gz", isDir |-> FALSE, kind |-> "jsongz"],
       [name |-> "logs/dir.json", isDir |-> TRUE, kind |-> "dir"],
       [name |-> "logs/notes.txt", isDir |-> FALSE, kind |-> "other"],
       [name |-> "logs/old.gz", isDir |-> FALSE, kind |-> "other"],
       [name |-> "logs/sub", isDir |-> TRUE, kind |-> "dir"],
       [name |-> "logs/sub/c.json.gz", isDir |-> FALSE, kind |-> "jsongz"],
       [name |-> "logs2/e.json", isDir |-> FALSE, kind |-> "json"],
       [name |-> "logs2/g.json.gz", isDir |-> FALSE, kind |-> "jsongz"] >>

\* The entries of WalkPool whose index is in S, in their order.
RECURSIVE PoolEntries(_, _)
PoolEntries(S, i) ==
    IF i > Len(WalkPool) THEN <<>>
    ELSE (IF i \in S THEN <<WalkPool[i]>> ELSE <<>>) \o PoolEntries(S, i + 1)

InitWalk ==
    /\ callIn \in { [params |-> c[1], exists |-> c[2],
                      entries |-> IF c[1] # "" /\ c[2]
                                  THEN PoolEntries(c[3], 1) ELSE <<>>] :
                        c \in ({"", "logs"} \X BOOLEAN \X SUBSET (1..Len(WalkPool))) }
    /\ callOut = NoCall
    /\ splitIn = NoSplitIn
    /\ splitOut = NoSplit
    /\ inst = NewInstance(Config("file", "", <<>>, 1, "", <<>>, FALSE, FALSE))
    /\ pc = "walk"
    /\ lastRes = "none"
    /\ evt = FreshEvt
    /\ obs = NoObs
    /\ hist = NoHist
    /\ msgsLeft = 0
    /\ failsLeft = 0
    /\ list = NoList
    /\ dlErrChan = <<>>

\* openLocal(params)
DoWalk ==
    /\ pc = "walk"
    /\ ~callOut.done
    /\ LET r == openLocalOn(inst, callIn.params, callIn.exists, callIn.entries) IN
        /\ inst' = r.inst
        /\ lastRes' = ResOf(r.err)
        /\ callOut' = [done |-> TRUE, err |-> r.err # ""]
    /\ UNCHANGED <<pc, evt, obs, hist, msgsLeft, failsLeft, list,
                   dlErrChan, splitIn, splitOut, callIn>>

NextWalk == DoWalk

SpecWalk == InitWalk /\ [][NextWalk]_vars

\* --------------------------------------- the content handling alone
\* File bytes: any run of up to MaxPieces pieces (a brace, bytes that are
\* no JSON, a comma, whole records), as they are in a file not flagged
\* compressed, or in one flagged compressed: gzipped, cut short, or not
\* gzip at all.
ContentPieces ==
    { <<"{">>, <<"}">>, <<"x">>, <<",">>, RecGood1, RecInsight, RecBadTime }

ContentInputs ==
    UNION { { [isCompressed |-> FALSE, bytes |-> raw],
              [isCompressed |-> TRUE, bytes |-> Gzip(raw)],
              [isCompressed |-> TRUE, bytes |-> <<"gz">> \o raw],
              [isCompressed |-> TRUE, bytes |-> raw] }
            : raw \in {Concat(q) : q \in SeqsUpTo(ContentPieces, MaxPieces)} }

\* A local session of one file, before the pull that reads the file.
InitContent ==
    /\ callIn \in ContentInputs
    /\ callOut = NoCall
    /\ splitIn = NoSplitIn
    /\ splitOut = NoSplit
    /\ inst = [NewInstance(Config("file", "logs", <<>>, 1, "", <<>>, FALSE, FALSE))
                 EXCEPT !.cloudTrailFilesDir = "logs",
                        !.files = <<[name |-> "logs/a.json",
                                     isCompressed |-> callIn.isCompressed]>>]
    /\ pc = "content"
    /\ lastRes = "none"
    /\ evt = FreshEvt
    /\ obs = NoObs
    /\ hist = NoHist
    /\ msgsLeft = 0
    /\ failsLeft = 0
    /\ list = NoList
    /\ dlErrChan = <<>>

\* The pull that reads the file: the read returns callIn.bytes.
FirstPull ==
    /\ pc = "content"
    /\ ~callOut.done
    /\ \E r \in Ingest([inst EXCEPT !.curFileNum = @ + 1],
                        inst.files[1].isCompressed, callIn.bytes,
                        [PullObs EXCEPT !.opened = 0, !.bytes = callIn.bytes],
                        0, 0) :
        /\ inst' = r.inst
        /\ lastRes' = r.res
        /\ evt' = r.evt
        /\ obs' = r.obs
    /\ callOut' = [done |-> TRUE]
    /\ UNCHANGED <<pc, hist, msgsLeft, failsLeft, list, dlErrChan, splitIn, splitOut,
                   callIn>>

\* Every later pull.
LaterPull ==
    /\ pc = "content"
    /\ callOut.done
    /\ \E r \in nextEvent(inst, 0, 0) :
        /\ inst' = r.inst
        /\ lastRes' = r.res
        /\ evt' = r.evt
        /\ obs' = r.obs
    /\ UNCHANGED <<pc, hist, msgsLeft, failsLeft, list, dlErrChan, splitIn, splitOut,
                   callIn, callOut>>

NextContent == FirstPull \/ LaterPull

SpecContent == InitContent /\ [][NextContent]_vars

\* ------------------------------ the fetch wave in direct S3 sessions
\* Direct S3 sessions alone, with one failure more than in Spec so that two
\* fetches of one wave can fail, and the goroutines of a wave running on.

InitWave ==
    /\ inst \in {NewInstance(Config("s3", "", c[1], c[2], "", <<>>, FALSE, FALSE)) :
                    c \in S3Inputs \X DValues}
    /\ pc = "closed"
    /\ lastRes = "none"
    /\ evt = FreshEvt
    /\ obs = NoObs
    /\ hist = NoHist
    /\ msgsLeft = 0
    /\ failsLeft = MaxFails + 1
    /\ list = NoList
    /\ dlErrChan = <<>>
    /\ splitIn = NoSplitIn
    /\ splitOut = NoSplit
    /\ callIn = NoCall
    /\ callOut = NoWave

\* Every pull that starts no wave.
PullServed == ~WaveNeeded /\ Pull

NextWave ==
    \/ OpenS3
    \/ \E w \in 1..MaxD : w <= Len(list.workers) /\ ListPage(w)
    \/ \E w \in 1..MaxD : w <= Len(list.workers) /\ ListRead(w)
    \/ \E w \in 1..MaxD : w <= Len(list.workers) /\ ListWrite(w)
    \/ ChunkJoin
    \/ WaveStart
    \/ WaveWork
    \/ WaveJoin
    \/ PullServed

\* The goroutines of a wave run on.
SpecWave == InitWave /\ [][NextWave]_vars /\ WF_vars(WaveWork)

\* ------------------------ a wave next to another session of the process
\* dlErrChan is a variable of the package (source.go 102): while a pull of
\* this session waits for its wave, another PluginInstance of the process
\* may run its own open or pull, up to MaxOthers steps of it in all
\* (callIn.others are left): it assigns dlErrChan a channel of its own
\* capacity, one of its workers sends an error on the channel the variable
\* refers to, or its join receives from that channel.
MaxOthers == 2

InitShared ==
    /\ inst \in {NewInstance(Config("s3", "", c[1], c[2], "", <<>>, FALSE, FALSE)) :
                    c \in S3Inputs \X (1..MaxD)}
    /\ pc = "closed"
    /\ lastRes = "none"
    /\ evt = FreshEvt
    /\ obs = NoObs
    /\ hist = NoHist
    /\ msgsLeft = 0
    /\ failsLeft = MaxFails
    /\ list = NoList
    /\ dlErrChan = <<>>
    /\ splitIn = NoSplitIn
    /\ splitOut = NoSplit
    /\ callIn = [others |-> MaxOthers]
    /\ callOut = NoWave

SharedUnchanged ==
    UNCHANGED <<inst, pc, lastRes, evt, obs, hist, msgsLeft, failsLeft, list,
                splitIn, splitOut>>

\* The other session's dlErrChan = make(chan error, d): the goroutines of
\* this session that wait in a send stay on the channel they took.
OtherMake(d) ==
    /\ pc = "fetching"
    /\ callIn.others > 0
    /\ dlErrChan' = <<>>
    /\ callOut' = [callOut EXCEPT
                     !.cap = d,
                     !.workers = [j \in 1..Len(callOut.workers) |->
                                    IF callOut.workers[j] = "blocked"
                                    THEN "stranded" ELSE callOut.workers[j]]]
    /\ callIn' = [callIn EXCEPT !.others = @ - 1]
    /\ SharedUnchanged

\* A worker of the other session runs its dlErrChan <- err.
OtherSend ==
    /\ pc = "fetching"
    /\ callIn.others > 0
    /\ Len(dlErrChan) < callOut.cap
    /\ dlErrChan' = Append(dlErrChan, "other")
    /\ callIn' = [callIn EXCEPT !.others = @ - 1]
    /\ UNCHANGED callOut
    /\ SharedUnchanged

\* The select of the other session's join takes an error from dlErrChan.
OtherRecv ==
    /\ pc = "fetching"
    /\ callIn.others > 0
    /\ dlErrChan # <<>>
    /\ dlErrChan' = Tail(dlErrChan)
    /\ callIn' = [callIn EXCEPT !.others = @ - 1]
    /\ UNCHANGED callOut
    /\ SharedUnchanged

NextShared ==
    \/ NextWave
    \/ \E d \in 1..MaxD : OtherMake(d)
    \/ OtherSend
    \/ OtherRecv

SpecShared == InitShared /\ [][NextShared]_vars

\* ============================================================ properties
\* A call of nextEvent returns in this step, in one step (Pull) or at the
\* end of its wave (WaveJoin); PullPre is the instance it was called on.
PullReturns ==
    /\ pc \in {"open", "fetching"}
    /\ pc' # "fetching"
    /\ obs'.op = "pull"

\* The record a pull took from the buffer (the buffer is not changed by it).
PoppedRecord == inst.evtJSONStrings[obs.popped + 1]

\* The split records of file f (index from 0) of the file list, from the
\* bytes its origin stores.
TrueRecords(in, f) ==
    LET file == in.files[f + 1]
        body == Stored(IF in.openMode = "fileMode" THEN "local" ELSE in.s3.bucket,
                       file.name)
    IN IF ~file.isCompressed THEN extractRecordStrings(body)
       ELSE IF GunzipOK(body) THEN extractRecordStrings(Gunzip(body))
       ELSE <<>>

LexLess(a, b) == a[1] < b[1] \/ (a[1] = b[1] /\ a[2] < b[2])

\* C1.  Local or direct S3 session: once a pull has returned end of stream,
\* every later pull returns end of stream too, and leaves the session as
\* it is.
C1_EndOfStreamIsTerminal ==
    [][(pc = "open" /\ inst.openMode # "sqsMode" /\ lastRes = "eof")
        => (lastRes' = "eof" /\ inst' = inst)]_vars

\* Two pulls in a row returned end of stream after files were consumed.
C1_Witness ==
    /\ pc = "open" /\ inst.openMode # "sqsMode"
    /\ lastRes = "eof" /\ hist.eofs = 2 /\ inst.curFileNum > 0

\* C2.  Queue session: no pull returns end of stream, and a pull that finds
\* every known file consumed and receives no message from its poll returns
\* try again.
C2_QueueNeverEnds ==
    (inst.openMode = "sqsMode" /\ obs.op = "pull" /\ pc # "fetching") =>
        /\ lastRes # "eof"
        /\ (obs.polled /\ obs.pollErr = "" /\ obs.received = "")
              => (lastRes = "timeout" /\ inst.curFileNum >= Len(inst.files))

\* Two empty polls in a row, after the files of a message were consumed.
C2_Witness ==
    /\ inst.openMode = "sqsMode" /\ obs.op = "pull" /\ pc # "fetching"
    /\ hist.emptyPolls = 2 /\ lastRes = "timeout" /\ inst.curFileNum > 0

\* The keys the listKeys workers of all chunks accept.
C3_AcceptedKeys ==
    UNION { UNION { { k \in {ListedKeys(list.chunks[c][i].prefix,
                                        list.chunks[c][i].startAfter)[j] :
                               j \in 1..Len(ListedKeys(list.chunks[c][i].prefix,
                                                       list.chunks[c][i].startAfter))} :
                        KeyAccepted(k, list.startTS, list.endTS) }
                    : i \in 1..Len(list.chunks[c]) }
            : c \in 1..Len(list.chunks) }

\* C3.  After a successful S3 open the file list holds every accepted key
\* exactly once, whatever the interleaving of the listing workers.
C3_EveryAcceptedKeyOnce ==
    (pc = "open" /\ inst.openMode = "s3Mode") =>
        /\ \A k \in C3_AcceptedKeys :
              Cardinality({i \in 1..Len(inst.files) : inst.files[i].name = k}) = 1
        /\ \A i \in 1..Len(inst.files) : inst.files[i].name \in C3_AcceptedKeys

\* C4.  While no pull has failed fatally: each emitted record comes later,
\* in (file index, position in file), than the record emitted before it,
\* and is that record of that file; within a file the position never goes
\* back, and the file index never goes back.
C4_EmittedInOrder ==
    [][(PullReturns /\ pc' = "open" /\ ~hist'.fatal) =>
        /\ lastRes' = "ok" =>
              LET e == hist'.lastEmit IN
              /\ LexLess(hist.lastEmit, e)
              /\ e[1] \in 0..(Len(inst'.files) - 1)
              /\ e[2] + 1 \in 1..Len(TrueRecords(inst', e[1]))
              /\ evt'.data = TrueRecords(inst', e[1])[e[2] + 1]
        /\ ~obs'.split => inst'.evtJSONListPos >= PullPre.evtJSONListPos
        /\ inst'.curFileNum >= PullPre.curFileNum]_vars

\* A record that is not the first of its file was emitted from a file that
\* is not the first of the list.
C4_Witness ==
    /\ pc = "open" /\ ~hist.fatal /\ lastRes = "ok"
    /\ hist.lastEmit[1] > 0 /\ hist.lastEmit[2] > 0
    /\ evt.data = TrueRecords(inst, hist.lastEmit[1])[hist.lastEmit[2] + 1]

\* Offset (from 0) of the i-th object in Envelope(objs).
RECURSIVE C5_Offset(_, _)
C5_Offset(objs, i) ==
    IF i = 1 THEN 3 ELSE C5_Offset(objs, i - 1) + Len(objs[i - 1]) + 1

\* C5.  For a well-formed envelope of K objects extractRecordStrings
\* returns K ranges, the i-th being the bytes of the i-th object from its
\* opening brace to its matching closing brace, in source order.
C5_SplitExact ==
    splitOut.done =>
        /\ Len(splitOut.res) = Len(splitIn.objs)
        /\ Len(splitOut.ranges) = Len(splitIn.objs)
        /\ \A i \in 1..Len(splitIn.objs) :
              /\ splitOut.ranges[i].from = C5_Offset(splitIn.objs, i)
              /\ splitOut.ranges[i].to =
                    C5_Offset(splitIn.objs, i) + Len(splitIn.objs[i])
              /\ splitOut.res[i] = splitIn.objs[i]

\* An envelope of the most objects, one of them with nested objects, split.
C5_Witness ==
    /\ splitOut.done
    /\ Len(splitIn.objs) = MaxRecs
    /\ \E i \in 1..MaxRecs : Len(splitIn.objs[i]) > 4
    /\ Len(splitOut.res) = MaxRecs

\* C6.  The pull that takes a record of the insight type returns try again,
\* writes nothing and moves past it; no pull emits such a record.
C6_InsightNeverEmitted ==
    /\ (obs.op = "pull" /\ obs.popped >= 0
            /\ EventTypeString(PoppedRecord) = InsightSentinel)
          => /\ lastRes = "timeout"
             /\ evt.data = <<>>
             /\ inst.evtJSONListPos = obs.popped + 1
    /\ (obs.op = "pull" /\ lastRes = "ok")
          => EventTypeString(evt.data) # InsightSentinel

\* An insight record with a valid eventTime was taken.
C6_Witness ==
    /\ obs.op = "pull" /\ obs.popped >= 0
    /\ PoppedRecord = RecInsight
    /\ lastRes = "timeout"

\* A record that does not parse, or has no eventTime, or one that is no
\* RFC3339 time.
C7_Bad(rec) ==
    \/ ~JSONParses(rec)
    \/ EventTimeString(rec) = ""
    \/ ~IsRFC3339(EventTimeString(rec))

C7_BadPopped == obs.op = "pull" /\ obs.popped >= 0 /\ C7_Bad(PoppedRecord)

\* C7.  The pull that takes a bad record returns try again with the cursor
\* just past it; the next pull takes the record that follows it in the
\* buffer, if there is one, and never the bad record again.
C7_BadRecordSkipped ==
    [][PullReturns =>
        /\ C7_BadPopped' =>
              /\ lastRes' = "timeout"
              /\ evt' = FreshEvt
              /\ inst'.evtJSONListPos = obs'.popped + 1
        /\ (C7_BadPopped /\ obs'.popped >= 0 /\ ~obs'.split) =>
              /\ obs'.popped = obs.popped + 1
              /\ inst'.evtJSONStrings = inst.evtJSONStrings
        /\ (C7_BadPopped /\ obs.popped + 1 < Len(inst.evtJSONStrings)) =>
              (obs'.popped = obs.popped + 1 /\ ~obs'.split)]_vars

\* A record without eventTime was skipped after two other bad records.
C7_Witness ==
    /\ C7_BadPopped /\ obs.popped = 2 /\ PoppedRecord = RecNoTime
    /\ inst.evtJSONStrings[1] = RecJunk
    /\ lastRes = "timeout"

\* The pull read a file flagged compressed and gunzip failed on its bytes.
C8_GzipFailed ==
    /\ obs.op = "pull" /\ obs.opened >= 0 /\ obs.readErr = ""
    /\ inst.files[obs.opened + 1].isCompressed
    /\ ~GunzipOK(obs.bytes)

\* C8.  The pull that opens a compressed file with a bad gzip stream
\* returns try again with the file index past it and the consumed buffer
\* left consumed; the next pull opens the following file, or polls, or
\* returns end of stream, and takes no record of the old buffer.
C8_BadGzipSkipped ==
    [][PullReturns =>
        /\ C8_GzipFailed' =>
              /\ lastRes' = "timeout"
              /\ evt' = FreshEvt
              /\ inst'.curFileNum = obs'.opened + 1
              /\ inst'.evtJSONListPos >= Len(inst'.evtJSONStrings)
              /\ ~obs'.split /\ obs'.popped = -1
        /\ C8_GzipFailed =>
              /\ obs'.popped >= 0 => obs'.split
              /\ IF PullPre.curFileNum < Len(PullPre.files)
                 THEN obs'.opened = PullPre.curFileNum
                 ELSE IF PullPre.openMode = "sqsMode" THEN obs'.polled
                 ELSE lastRes' = "eof"]_vars

\* A truncated gzip file was opened after a file whose records were
\* consumed.
C8_Witness ==
    /\ C8_GzipFailed /\ lastRes = "timeout"
    /\ obs.opened > 0 /\ Len(inst.evtJSONStrings) > 0

\* C9.  No session in S3 or queue mode is open with a download concurrency
\* below 1.
C9_ConcurrencyChecked ==
    (pc = "open" /\ inst.openMode \in {"s3Mode", "sqsMode"})
        => inst.config.S3DownloadConcurrency >= 1

\* C10.  An S3 open in which a listing call failed does not succeed, and
\* starts no chunk after the one in which a worker failed.
C10_ListingFailureAborts ==
    /\ (inst.openMode = "s3Mode" /\ hist.listFailed) => pc # "open"
    /\ (inst.openMode = "s3Mode" /\ hist.failChunk > 0) => list.cur = hist.failChunk

\* The timestamp a key's file name embeds (<<>> when it has none).
C11_KeyTS(key) ==
    IF PathTSIndex(Tok(key)) = 0 THEN <<>> ELSE <<Tok(key)[PathTSIndex(Tok(key))]>>

\* The keys the listing calls of the open returned.
C11_Listed ==
    UNION { UNION { {ListedKeys(list.chunks[c][i].prefix,
                                list.chunks[c][i].startAfter)[j] :
                       j \in 1..Len(ListedKeys(list.chunks[c][i].prefix,
                                               list.chunks[c][i].startAfter))}
                    : i \in 1..Len(list.chunks[c]) }
            : c \in 1..Len(list.chunks) }

\* C11.  After an S3 open with a window [start, end]: no file of the list
\* has an embedded timestamp before start or after end, and every listed
\* key with a matching extension whose timestamp is start or end is in the
\* list.
C11_WindowApplied ==
    LET iv == ParseInterval(inst.config.S3Interval) IN
    (pc = "open" /\ inst.openMode = "s3Mode" /\ ~iv.err
        /\ ~iv.start.zero /\ ~iv.end.zero) =>
        /\ \A i \in 1..Len(inst.files) :
              LET ts == C11_KeyTS(inst.files[i].name) IN
              ts # <<>> => (~StrLess(ts, iv.start.ts) /\ ~StrLess(iv.end.ts, ts))
        /\ \A k \in C11_Listed :
              (MatchesExt(Tok(k)) /\ C11_KeyTS(k) \in {iv.start.ts, iv.end.ts})
                 => \E i \in 1..Len(inst.files) : inst.files[i].name = k

\* C12.  A prefix ending in /AWSLogs/<account> or
\* /AWSLogs/<org id>/<account>, with or without a final "/", gives exactly
\* one listing prefix: the prefix, one "/", "CloudTrail/".
C12_AccountPrefixDerived ==
    (callOut.done /\ ~callOut.err /\ callIn.shape \in {"account", "orgaccount"}) =>
        callOut.list =
            << <<"p">> \o ShapeTail(callIn.shape, callIn.acct)
               \o <<"/", "CloudTrail", "/">> >>

\* An organization account prefix given with its final "/" was resolved.
C12_Witness ==
    /\ callOut.done /\ ~callOut.err
    /\ callIn.shape = "orgaccount" /\ callIn.slash
    /\ Len(callOut.list) = 1

\* The account ids of an account list, in its order.
C13_Accounts == SelectSeq(callIn.accounts, IsAccount)

\* C13.  An organization prefix with an accepted, non-empty account list
\* gives one listing prefix per account id of the list, in its order, each
\* <prefix>/<account>/CloudTrail/.
C13_OnePrefixPerAccount ==
    (callOut.done /\ ~callOut.err /\ callIn.shape \in {"org", "orgid"}
        /\ callIn.accounts # <<>>) =>
        callOut.list =
            [i \in 1..Len(C13_Accounts) |->
                <<"p">> \o ShapeTail(callIn.shape, callIn.acct)
                \o <<"/", C13_Accounts[i], "/", "CloudTrail", "/">>]

\* The files of the walked tree with a .json or .json.gz name.
C14_Matching == SelectSeq(callIn.entries, LAMBDA e : e.kind \in {"json", "jsongz"})

\* C14.  After openLocal has walked a tree, the file list holds the
\* regular files named .json or .json.gz, each once, in the order of the
\* walk, compressed exactly for the .json.gz ones; nothing else.
C14_LocalFilesExact ==
    (callOut.done /\ callIn.params # "" /\ callIn.exists) =>
        inst.files = [i \in 1..Len(C14_Matching) |->
                        [name |-> C14_Matching[i].name,
                         isCompressed |-> C14_Matching[i].kind = "jsongz"]]

\* A tree with matching files of both kinds, other files and directories.
C14_Witness ==
    /\ callOut.done /\ ~callOut.err
    /\ Len(callIn.entries) = Len(WalkPool)
    /\ Len(inst.files) = 5

\* C15.  openLocal returns an error exactly when the path is empty, or
\* does not exist, or the walk finds no matching file; after a success
\* the file list is not empty.
C15_LocalOpenFails ==
    callOut.done =>
        /\ callOut.err <=> (callIn.params = "" \/ ~callIn.exists
                             \/ Len(C14_Matching) = 0)
        /\ ~callOut.err => Len(inst.files) > 0

\* A tree of directories and other files only made the open fail.
C15_Witness ==
    /\ callOut.done /\ callOut.err
    /\ callIn.params # "" /\ callIn.exists
    /\ Len(callIn.entries) > 2

\* C16.  Whatever the bytes of the file, no pull ends in a panic, and a
\* pull returns an error only when the write of the record failed or was
\* short: every other pull returns a record, try again or end of stream.
C16_ContentNeverFatal ==
    callOut.done =>
        \/ lastRes \in {"ok", "timeout", "eof"}
        \/ (lastRes = "error" /\ obs.wrote \in {"error", "short"})

\* Bytes with braces that do not balance were split and gave try again.
C16_Witness ==
    /\ callOut.done /\ obs.split /\ lastRes = "timeout"
    /\ ~callIn.isCompressed
    /\ DepthBefore(callIn.bytes, Len(callIn.bytes) + 1) # 0
    /\ Len(callIn.bytes) > 3

\* C17.  A pull returns success exactly when the record it popped parses,
\* has an RFC3339 eventTime and a string eventType that is not the insight
\* sentinel, and the write took all the bytes; the event then carries the
\* record's bytes as split from the file and the eventTime as timestamp.
C17_WellFormed(rec) ==
    /\ JSONParses(rec)
    /\ TopMembers(rec) \cap {"T", "U"} # {}
    /\ "E" \in TopMembers(rec)

C17_Nanos(rec) == IF "T" \in TopMembers(rec) THEN 1 ELSE 2

C17_SuccessExact ==
    obs.op = "pull" =>
        /\ obs.popped < 0 => lastRes # "ok"
        /\ obs.popped >= 0 =>
              /\ (lastRes = "ok") <=>
                    (C17_WellFormed(PoppedRecord) /\ obs.wrote = "ok")
              /\ lastRes = "ok" =>
                    /\ evt.data = PoppedRecord
                    /\ evt.tsSet
                    /\ evt.ts = C17_Nanos(PoppedRecord)

\* A later record of a file, with the later of the two eventTimes, was
\* emitted.
C17_Witness ==
    /\ obs.op = "pull" /\ obs.popped >= 1 /\ lastRes = "ok"
    /\ evt.data = PoppedRecord /\ evt.ts = 2

\* C18.  Local or direct S3 session that is pulled again and again:
\* every pull that returns a record or try again moves the pair (file
\* index, position in the file) strictly forward, and the session comes to
\* a pull that returns end of stream unless a pull fails first.
C18_Position(in) == <<in.curFileNum, in.evtJSONListPos>>

C18_Finite == pc \in {"open", "fetching"} /\ inst.openMode # "sqsMode"

C18_PullsReachEndOfStream ==
    /\ [][(C18_Finite /\ PullReturns /\ lastRes' \in {"ok", "timeout"})
            => LexLess(C18_Position(PullPre), C18_Position(inst'))]_vars
    /\ (C18_Finite ~> (lastRes = "eof" \/ hist.fatal))

\* A direct S3 session of several files came to end of stream with no
\* failed pull.
C18_Witness ==
    /\ pc = "open" /\ inst.openMode = "s3Mode" /\ Len(inst.files) >= 2
    /\ lastRes = "eof" /\ ~hist.fatal
    /\ inst.curFileNum = Len(inst.files)

\* C19.  Downloader: a pull that opens a file starts a wave only when no
\* slot the previous wave filled is still unread; the wave fetches the
\* files k .. k + batchSize - 1, where k is the files-consumed cursor and
\* batchSize = min(D, files left) is at least 1, slot j taking the body of
\* file k + j; after a join without error the cursor is k + batchSize, and
\* the next batchSize - 1 pulls that open a file are served the slots
\* 1 .. batchSize - 1 in order, with no fetch.
C19_Opening ==
    /\ PullReturns /\ obs'.opened >= 0
    /\ PullPre.openMode # "fileMode"

C19_WaveStarts == C19_Opening /\ PullPre.s3.curBuf >= PullPre.s3.nFilledBufs

C19_Wave ==
    LET k == PullPre.s3.lastDownloadedFileNum
        batchSize == min(PullPre.config.S3DownloadConcurrency, Len(inst'.files) - k)
    IN
    /\ hist.unread = {}
    /\ batchSize >= 1
    /\ obs'.wave = k..(k + batchSize - 1)
    /\ obs'.readErr = "" =>
          /\ \A j \in 0..(batchSize - 1) :
                inst'.s3.DownloadBufs[j + 1]
                    = Stored(inst'.s3.bucket, inst'.files[k + j + 1].name)
          /\ inst'.s3.lastDownloadedFileNum = k + batchSize
          /\ obs'.bytes = inst'.s3.DownloadBufs[1]
          /\ hist'.unread = 1..(batchSize - 1)

C19_Served ==
    hist.joinOk =>
        /\ obs'.wave = {}
        /\ obs'.readErr = ""
        /\ hist.unread # {}
        /\ PullPre.s3.curBuf
              = CHOOSE j \in hist.unread : \A i \in hist.unread : j <= i
        /\ obs'.bytes = PullPre.s3.DownloadBufs[PullPre.s3.curBuf + 1]
        /\ hist'.unread = hist.unread \ {PullPre.s3.curBuf}

C19_WaveDiscipline ==
    [][/\ C19_WaveStarts => C19_Wave
       /\ (C19_Opening /\ ~C19_WaveStarts) => C19_Served]_vars

\* C20.  S3 or queue session: no file of the list is fetched twice, and no
\* file's body is split into records twice, whatever pulls came before.
C20_FetchedAndOpenedOnce ==
    (pc \in {"open", "crashed"} /\ inst.openMode # "fileMode") =>
        /\ hist.refetched = {}
        /\ hist.reopened = {}

\* C21.  One wave of fetches: every fetch of the wave comes to its end,
\* failed siblings or not; the pull returns only when all of them have; a
\* fetch that did not fail has stored its body; and when a fetch failed
\* the pull returns an error and hands on no bytes.
C21_WavePull == callOut.done /\ obs.op = "pull" /\ obs.wave # {}

\* The first file of the wave, whose body goes to slot 0.
C21_First == CHOOSE k \in obs.wave : \A g \in obs.wave : k <= g

C21_WaveCompletes ==
    /\ (pc = "fetching") ~> WaveAllDone
    /\ [](callOut.done => WaveAllDone)
    /\ [](C21_WavePull =>
            \A f \in obs.wave \ callOut.failed :
                inst.s3.DownloadBufs[f - C21_First + 1]
                    = Stored(inst.s3.bucket, inst.files[f + 1].name))
    /\ []((C21_WavePull /\ callOut.failed # {}) =>
            /\ lastRes = "error"
            /\ obs.bytes = <<>>
            /\ ~obs.split
            /\ evt = FreshEvt)

\* A wave of two fetches, one failed and one not, has been joined.
C21_Witness ==
    /\ C21_WavePull
    /\ Cardinality(obs.wave) >= 2
    /\ Cardinality(callOut.failed) = 1
    /\ lastRes = "error"

\* C22.  A poll of the queue (by open or by a pull) receives one message
\* at most: the files it appends are named by that one message.  With
\* delete-on-read, a poll whose delete failed returns an error and has
\* appended nothing and parsed nothing of the message; without it no poll
\* deletes.
C22_Poll ==
    /\ pc \in {"closed", "open", "fetching"}
    /\ pc' # "fetching"
    /\ inst.config.scheme = "sqs"
    /\ obs'.polled

C22_Named(m) ==
    IF m = "" THEN {}
    ELSE {Messages[m].keys[i] : i \in 1..Len(Messages[m].keys)}
         \cup {Messages[m].records[i].key : i \in 1..Len(Messages[m].records)}

C22_Appended ==
    {inst'.files[i].name : i \in (Len(PullPre.files) + 1)..Len(inst'.files)}

C22_DeleteBeforeParse ==
    [][C22_Poll =>
        /\ Len(inst'.files) >= Len(PullPre.files)
        /\ C22_Appended \subseteq C22_Named(obs'.received)
        /\ ~inst.config.SQSDelete => ~obs'.deleted
        /\ (inst.config.SQSDelete /\ obs'.received # "" /\ ~obs'.deleted) =>
              /\ lastRes' = "error"
              /\ inst'.files = PullPre.files
              /\ inst'.s3 = PullPre.s3
        /\ (inst.config.SQSDelete /\ obs'.received # "" /\ obs'.pollErr = "") =>
              obs'.deleted]_vars

\* The delete of a message that names two files failed.
C22_Witness ==
    /\ obs.op = "pull" /\ obs.polled /\ inst.config.SQSDelete
    /\ obs.received = "mCustom" /\ ~obs.deleted
    /\ lastRes = "error"

\* C23.  Queue session on the storage's own notifications: every file a
\* wave has fetched was fetched from the bucket that the record naming it
\* gives, also when the records of one message name different buckets.
C23_RecordBuckets(name) ==
    {b \in {"b1", "b2"} :
        \E m \in MsgIds : \E i \in 1..Len(Messages[m].records) :
            Messages[m].records[i] = [bucket |-> b, key |-> name]}

C23_FetchedFromOwnBucket ==
    (/\ pc # "fetching"
     /\ obs.op = "pull" /\ inst.openMode = "sqsMode" /\ inst.config.UseS3SNS
     /\ obs.wave # {}) =>
        \A f \in obs.wave \ obs.failed :
            \E b \in C23_RecordBuckets(inst.files[f + 1].name) :
                inst.s3.DownloadBufs[f - C21_First + 1]
                    = Stored(b, inst.files[f + 1].name)

\* C24.  A pull of a queue session whose poll received no message (and
\* did not fail) leaves the session as it was: file list, index of the
\* next file, record buffer and position in it, active bucket and the
\* downloader's cursors and slots; it returns a timeout.
C24_EmptyPoll ==
    /\ PullReturns
    /\ PullPre.openMode = "sqsMode"
    /\ obs'.polled /\ obs'.received = "" /\ obs'.pollErr = ""

C24_EmptyPollNoChange ==
    [][C24_EmptyPoll =>
        /\ inst'.files = PullPre.files
        /\ inst'.curFileNum = PullPre.curFileNum
        /\ inst'.evtJSONStrings = PullPre.evtJSONStrings
        /\ inst'.evtJSONListPos = PullPre.evtJSONListPos
        /\ inst'.s3 = PullPre.s3
        /\ inst' = PullPre
        /\ lastRes' = "timeout"]_vars

\* An empty poll came after files of an earlier poll were fetched and read.
C24_Witness ==
    /\ pc = "open"
    /\ obs.op = "pull" /\ inst.openMode = "sqsMode"
    /\ obs.polled /\ obs.received = "" /\ obs.pollErr = ""
    /\ Len(inst.files) >= 2
    /\ inst.s3.bucket # ""
    /\ inst.s3.lastDownloadedFileNum >= 1
    /\ lastRes = "timeout"

\* C25.  Queue session: a pull polls the queue only when the record buffer
\* is consumed and every file of the list has been opened, and by then
\* every file of the list has been fetched, so that no file appended by an
\* earlier poll is fetched under the bucket a later poll sets.
C25_PullPolls ==
    /\ PullReturns
    /\ PullPre.openMode = "sqsMode"
    /\ obs'.polled

\* The guard of the poll alone.
C25_PollGuard ==
    [][C25_PullPolls =>
        /\ PullPre.evtJSONListPos >= Len(PullPre.evtJSONStrings)
        /\ PullPre.curFileNum >= Len(PullPre.files)]_vars

C25_PollAfterAllFetched ==
    [][C25_PullPolls =>
        /\ PullPre.evtJSONListPos >= Len(PullPre.evtJSONStrings)
        /\ PullPre.curFileNum >= Len(PullPre.files)
        /\ \A f \in 0..(Len(PullPre.files) - 1) : f \in hist.fetched]_vars

\* C26.  Once open has returned, a pull never removes, reorders or
\* changes an entry of the file list: the list before is a prefix of the
\* list after.  In a local or S3 session no pull changes the list; in a
\* queue session the list grows only in a pull that polled.  The kind of
\* origin stays as open set it.
C26_AfterOpen == PullReturns

C26_FilesAppendOnly ==
    [][C26_AfterOpen =>
        /\ Len(inst'.files) >= Len(PullPre.files)
        /\ \A i \in 1..Len(PullPre.files) : inst'.files[i] = PullPre.files[i]
        /\ PullPre.openMode \in {"fileMode", "s3Mode"} => inst'.files = PullPre.files
        /\ inst'.files # PullPre.files =>
              /\ PullPre.openMode = "sqsMode"
              /\ obs'.polled /\ obs'.received # ""
        /\ inst'.openMode = PullPre.openMode]_vars

\* A pull of a queue session polled and appended to a list that had
\* entries already.
C26_Witness ==
    /\ pc = "open"
    /\ obs.op = "pull" /\ inst.openMode = "sqsMode"
    /\ obs.polled /\ obs.received = "mCustom"
    /\ Len(inst.files) >= 3
    /\ inst.files[1].name = "q/t.json.gz"

\* C27.  After a successful S3 open the file list is in merge order: the
\* keys of an earlier chunk before those of a later chunk, within a chunk
\* the keys of an earlier listing worker before those of a later one, and
\* the keys of one worker in the order of its pages.
C27_KeysOf(params) ==
    SelectSeq(ListedKeys(params.prefix, params.startAfter),
              LAMBDA k : KeyAccepted(k, list.startTS, list.endTS))

C27_MergeOrder ==
    Concat([c \in 1..Len(list.chunks) |->
              Concat([i \in 1..Len(list.chunks[c]) |->
                        C27_KeysOf(list.chunks[c][i])])])

C27_Rank(name) ==
    CHOOSE n \in 0..Len(C27_MergeOrder) :
        IF \E j \in 1..Len(C27_MergeOrder) : C27_MergeOrder[j] = name
        THEN n > 0 /\ C27_MergeOrder[n] = name
        ELSE n = 0

C27_FilesInMergeOrder ==
    (pc = "open" /\ inst.openMode = "s3Mode" /\ obs.op = "open") =>
        \A i, j \in 1..Len(inst.files) :
            i < j => C27_Rank(inst.files[i].name) < C27_Rank(inst.files[j].name)

\* ------------------------------------------------ chunkListOrigin alone
\* Lists of up to MaxOrigins listing origins, and chunk sizes from below 1
\* to above the longest list.
MaxOrigins == 5

ChunkOrigins ==
    { [prefix |-> <<"p", "/">>, startAfter |-> <<>>],
      [prefix |-> <<"q", "/">>, startAfter |-> <<"q", "/", "k">>] }

InitChunk ==
    /\ callIn \in { [orgList |-> l, chunkSize |-> c] :
                      l \in SeqsUpTo(ChunkOrigins, MaxOrigins),
                      c \in (-1)..(MaxOrigins + 1) }
    /\ callOut = NoCall
    /\ splitIn = NoSplitIn
    /\ splitOut = NoSplit
    /\ inst = NewInstance(Config("s3", "", <<>>, 1, "", <<>>, FALSE, FALSE))
    /\ pc = "chunk"
    /\ lastRes = "none"
    /\ evt = FreshEvt
    /\ obs = NoObs
    /\ hist = NoHist
    /\ msgsLeft = 0
    /\ failsLeft = 0
    /\ list = NoList
    /\ dlErrChan = <<>>

DoChunk ==
    /\ pc = "chunk"
    /\ ~callOut.done
    /\ callOut' = [done |-> TRUE,
                   chunks |-> chunkListOrigin(callIn.orgList, callIn.chunkSize)]
    /\ UNCHANGED <<inst, pc, lastRes, evt, obs, hist, msgsLeft, failsLeft, list,
                   dlErrChan, splitIn, splitOut, callIn>>

NextChunk == DoChunk

SpecChunk == InitChunk /\ [][NextChunk]_vars

\* C28.  chunkListOrigin(list, size) of a list of n >= 1 origins and a
\* size >= 1 has ceil(n/size) chunks, none empty and none longer than
\* size, and the chunks concatenated in order are the list; of an empty
\* list, or with size < 1, it is empty.
C28_ChunksExact ==
    (pc = "chunk" /\ callOut.done) =>
        LET n == Len(callIn.orgList)
            size == callIn.chunkSize
            r == callOut.chunks
        IN IF n >= 1 /\ size >= 1
           THEN /\ Len(r) = (n + size - 1) \div size
                /\ Len(r) * size >= n /\ (Len(r) - 1) * size < n
                /\ \A c \in 1..Len(r) : Len(r[c]) >= 1 /\ Len(r[c]) <= size
                /\ Concat(r) = callIn.orgList
           ELSE r = <<>>

\* Five origins in chunks of two: two full chunks and one of one origin.
C28_Witness ==
    /\ pc = "chunk" /\ callOut.done
    /\ Len(callIn.orgList) = 5 /\ callIn.chunkSize = 2
    /\ Len(callOut.chunks) = 3
    /\ Len(callOut.chunks[3]) = 1
    /\ callIn.orgList[1] # callIn.orgList[2]

\* C29.  At every moment the listing workers and fetch workers of the
\* session that have not come to their end are at most
\* S3DownloadConcurrency, and none is left when open or a pull has
\* returned.
C29_ListingRunning ==
    {w \in 1..Len(list.workers) : list.workers[w].phase # "done"}

C29_FetchRunning ==
    {j \in 1..Len(callOut.workers) : callOut.workers[j] # "done"}

C29_WorkersBounded ==
    /\ Cardinality(C29_ListingRunning) + Cardinality(C29_FetchRunning)
          <= inst.config.S3DownloadConcurrency
       \/ (C29_ListingRunning = {} /\ C29_FetchRunning = {})
    /\ pc \in {"closed", "open", "failed", "crashed"} =>
          C29_ListingRunning = {} /\ C29_FetchRunning = {}
    /\ pc = "listing" => C29_FetchRunning = {}
    /\ pc = "fetching" => C29_ListingRunning = {}

\* A pull has returned from a wave of two fetches, after an open that
\* listed with two workers at a time.
C29_Witness ==
    /\ pc = "open" /\ obs.op = "pull" /\ callOut.done
    /\ inst.config.S3DownloadConcurrency = 2
    /\ Len(callOut.workers) = 2
    /\ \E c \in 1..Len(list.chunks) : Len(list.chunks[c]) = 2

\* C30.  S3 or queue session in which no fetch has failed: the pull that
\* opens file i reads the slot that holds the body fetched for file i
\* (i = lastDownloadedFileNum - nFilledBufs + slot), hands that body to
\* decompression and splitting, and decompresses it exactly when file i is
\* flagged compressed; also when polls made the list grow between waves.
C30_Opened ==
    /\ pc = "open" /\ obs.op = "pull"
    /\ inst.openMode # "fileMode"
    /\ obs.opened >= 0 /\ obs.readErr = ""
    /\ ~hist.fetchFailed

C30_BytesOfOpenedFile ==
    C30_Opened =>
        LET i == obs.opened
            slot == inst.s3.curBuf - 1
            file == inst.files[i + 1]
        IN /\ i = inst.s3.lastDownloadedFileNum - inst.s3.nFilledBufs + slot
           /\ <<slot, i>> \in hist.slotFile
           /\ obs.bytes = inst.s3.DownloadBufs[slot + 1]
           /\ obs.bytes = Stored(inst.s3.bucket, file.name)
           /\ obs.split = ~(file.isCompressed /\ ~GunzipOK(obs.bytes))
           /\ obs.split =>
                 inst.evtJSONStrings =
                     extractRecordStrings(IF file.isCompressed
                                          THEN Gunzip(obs.bytes) ELSE obs.bytes)

\* Two polls made the list grow; the fourth file, not compressed behind a
\* compressed one, is served from the second slot of the second wave.
C30_Witness ==
    /\ C30_Opened
    /\ inst.openMode = "sqsMode"
    /\ obs.opened = 3 /\ obs.wave = {} /\ obs.split
    /\ inst.s3.curBuf = 2
    /\ ~inst.files[4].isCompressed /\ inst.files[3].isCompressed

\* C32.  A pull that returns an error because the fetch or the local read
\* of the file it opened failed leaves the cursors as they were: index of
\* the next file, filled slots, slot cursor, files-consumed cursor, record
\* buffer and position in it.
C32_ReadFailed ==
    /\ PullReturns
    /\ obs'.opened >= 0
    /\ obs'.readErr = "error"

C32_FailedReadKeepsCursors ==
    [][C32_ReadFailed =>
        /\ lastRes' = "error"
        /\ inst'.curFileNum = PullPre.curFileNum
        /\ inst'.s3.nFilledBufs = PullPre.s3.nFilledBufs
        /\ inst'.s3.curBuf = PullPre.s3.curBuf
        /\ inst'.s3.lastDownloadedFileNum = PullPre.s3.lastDownloadedFileNum
        /\ inst'.evtJSONStrings = PullPre.evtJSONStrings
        /\ inst'.evtJSONListPos = PullPre.evtJSONListPos]_vars

\* C33.  A record that parses and has a valid eventTime but no eventType
\* string (none at all, or a number) is never emitted: the pull that pops
\* it returns try again, writes no payload, and has moved the position in
\* the record buffer past it.
C33_Popped == inst'.evtJSONStrings[obs'.popped + 1]

C33_PopsUntyped ==
    /\ PullReturns
    /\ obs'.popped >= 0
    /\ JSONParses(C33_Popped)
    /\ IsRFC3339(EventTimeString(C33_Popped))
    /\ TopMembers(C33_Popped) \cap {"E", "I"} = {}

C33_UntypedNeverEmitted ==
    [][C33_PopsUntyped =>
        /\ lastRes' = "timeout"
        /\ obs'.wrote = ""
        /\ evt'.data = <<>>
        /\ inst'.evtJSONListPos = obs'.popped + 1]_vars

\* The record with a number for eventType was popped and skipped.
C33_Witness ==
    /\ pc = "open" /\ obs.op = "pull" /\ obs.popped >= 0
    /\ inst.evtJSONStrings[obs.popped + 1] = RecNumType
    /\ lastRes = "timeout"
    /\ inst.evtJSONListPos = obs.popped + 1

\* C34.  A pull that returns try again or end of stream has left the
\* caller's event untouched: no payload bytes and no timestamp written.
C34_EventUntouched ==
    (obs.op = "pull" /\ lastRes \in {"timeout", "eof"}) =>
        /\ evt.data = <<>>
        /\ ~evt.tsSet
        /\ evt = FreshEvt

\* C35.  Each pull opens at most one file.  A pull that opens a file whose
\* split yields no record returns try again, also when the file was the
\* last of the list, and goes no further; the pull after it opens the
\* next file if there is one, else polls (queue session) or returns end
\* of stream.
C35_EmptySplit ==
    /\ obs.op = "pull" /\ obs.opened >= 0 /\ obs.split
    /\ inst.evtJSONStrings = <<>>

C35_OneFileAPull ==
    [][PullReturns =>
        /\ inst'.curFileNum \in {PullPre.curFileNum, PullPre.curFileNum + 1}
        /\ obs'.opened >= 0 =>
              /\ obs'.opened = PullPre.curFileNum
              /\ inst'.curFileNum = PullPre.curFileNum + 1
        /\ obs'.opened < 0 => inst'.curFileNum = PullPre.curFileNum
        /\ C35_EmptySplit' =>
              /\ lastRes' = "timeout"
              /\ obs'.popped = -1
        /\ (C35_EmptySplit /\ lastRes = "timeout") =>
              IF PullPre.curFileNum < Len(PullPre.files)
              THEN obs'.opened = PullPre.curFileNum /\ ~obs'.polled
              ELSE IF PullPre.openMode = "sqsMode"
              THEN obs'.polled
              ELSE lastRes' = "eof" /\ obs'.opened = -1]_vars

\* The last file of a session without a queue had no record, and no pull
\* had failed: the pull that opened it returned try again, and the pull
\* after it end of stream.
C35_Witness ==
    /\ pc = "open" /\ obs.op = "pull"
    /\ inst.openMode # "sqsMode"
    /\ ~hist.fatal
    /\ lastRes = "eof"
    /\ inst.evtJSONStrings = <<>>
    /\ Len(inst.files) >= 2
    /\ hist.src = Len(inst.files) - 1
    /\ hist.eofs = 1

\* C31.  Another session runs in the process: the join of a wave of this
\* session observes an error exactly when a fetch of that wave failed, the
\* error it observes is one its own goroutines sent, and no goroutine of
\* the wave waits for ever in its send.
C31_OwnErrorsOnly ==
    /\ [][(pc = "fetching" /\ PullReturns) =>
            /\ (obs'.readErr = "error") <=> (callOut.failed # {})
            /\ obs'.readErr = "error" => Head(dlErrChan) = "err"]_vars
    /\ [](\A j \in 1..Len(callOut.workers) : callOut.workers[j] # "stranded")

\* ------------------------------------- two sessions in one process
\* dlErrChan is a variable of the package: every session of the process
\* assigns it and reads it.  Here two sessions, A and B, each run up to
\* MaxWaves waves of workers (the listKeys goroutines of a chunk or the
\* s3Download goroutines of a pull).  callOut.chans holds the channels made
\* so far, each with its capacity and the errors in it (named by the
\* session whose worker sent them), and dlErrChan the index of the channel
\* the package variable refers to (0: nil).  Of a session: phase, the number
\* of waves joined, its workers ("run", "send" with the channel the send
\* statement took from the variable, "done"), raised whether a worker of
\* the wave failed, and seen what the join of the wave took from the
\* channel ("none": the default case of the select).
MaxWaves == 2

TwoSessions == {"A", "B"}

NoSess == [phase |-> "idle", waves |-> 0, workers |-> <<>>, raised |-> FALSE,
           seen |-> ""]

InitTwo ==
    /\ callIn \in { [D |-> [s \in TwoSessions |-> IF s = "A" THEN c[1] ELSE c[2]]] :
                      c \in (1..MaxD) \X (1..MaxD) }
    /\ callOut = [done |-> FALSE, chans |-> <<>>,
                  sess |-> [s \in TwoSessions |-> NoSess]]
    /\ dlErrChan = 0
    /\ splitIn = NoSplitIn
    /\ splitOut = NoSplit
    /\ inst = NewInstance(Config("s3", "", <<>>, 1, "", <<>>, FALSE, FALSE))
    /\ pc = "two"
    /\ lastRes = "none"
    /\ evt = FreshEvt
    /\ obs = NoObs
    /\ hist = NoHist
    /\ msgsLeft = 0
    /\ failsLeft = 0
    /\ list = NoList

TwoUnchanged ==
    UNCHANGED <<inst, pc, lastRes, evt, obs, hist, msgsLeft, failsLeft, list,
                splitIn, splitOut, callIn>>

\* dlErrChan = make(chan error, D) and the start of the n workers.
SessionWave(s) ==
    /\ pc = "two"
    /\ callOut.sess[s].phase = "idle"
    /\ callOut.sess[s].waves < MaxWaves
    /\ \E n \in 1..callIn.D[s] :
          callOut' = [callOut EXCEPT
                        !.chans = Append(@, [cap |-> callIn.D[s], buf |-> <<>>]),
                        !.sess[s].phase = "running",
                        !.sess[s].workers = [j \in 1..n |-> [st |-> "run", ch |-> 0]],
                        !.sess[s].raised = FALSE,
                        !.sess[s].seen = ""]
    /\ dlErrChan' = Len(callOut.chans) + 1
    /\ TwoUnchanged

\* The call of worker j returns without error: the worker ends.
SessionWorkerOk(s, j) ==
    /\ pc = "two"
    /\ callOut.sess[s].workers[j].st = "run"
    /\ callOut' = [callOut EXCEPT !.sess[s].workers[j].st = "done"]
    /\ UNCHANGED dlErrChan
    /\ TwoUnchanged

\* It returns an error: the worker comes to dlErrChan <- err, which takes
\* the channel the package variable refers to now.
SessionWorkerFails(s, j) ==
    /\ pc = "two"
    /\ callOut.sess[s].workers[j].st = "run"
    /\ callOut' = [callOut EXCEPT !.sess[s].workers[j] = [st |-> "send",
                                                          ch |-> dlErrChan],
                                  !.sess[s].raised = TRUE]
    /\ UNCHANGED dlErrChan
    /\ TwoUnchanged

\* The send goes through when that channel has room.
SessionSend(s, j) ==
    /\ pc = "two"
    /\ callOut.sess[s].workers[j].st = "send"
    /\ LET c == callOut.sess[s].workers[j].ch IN
       /\ Len(callOut.chans[c].buf) < callOut.chans[c].cap
       /\ callOut' = [callOut EXCEPT !.chans[c].buf = Append(@, s),
                                     !.sess[s].workers[j].st = "done"]
    /\ UNCHANGED dlErrChan
    /\ TwoUnchanged

\* DownloadWg.Wait() has returned; select { case e := <-dlErrChan: ...
\* default: } on the channel the package variable refers to now.
SessionJoin(s) ==
    /\ pc = "two"
    /\ callOut.sess[s].phase = "running"
    /\ \A j \in 1..Len(callOut.sess[s].workers) :
          callOut.sess[s].workers[j].st = "done"
    /\ LET c == dlErrChan IN
       IF callOut.chans[c].buf # <<>>
       THEN callOut' = [callOut EXCEPT !.chans[c].buf = Tail(@),
                                      !.sess[s].seen = Head(callOut.chans[c].buf),
                                      !.sess[s].phase = "idle",
                                      !.sess[s].waves = @ + 1]
       ELSE callOut' = [callOut EXCEPT !.sess[s].seen = "none",
                                      !.sess[s].phase = "idle",
                                      !.sess[s].waves = @ + 1]
    /\ UNCHANGED dlErrChan
    /\ TwoUnchanged

SessionWorker(s) ==
    \E j \in 1..MaxD :
        /\ j <= Len(callOut.sess[s].workers)
        /\ (SessionWorkerOk(s, j) \/ SessionWorkerFails(s, j) \/ SessionSend(s, j))

NextTwo ==
    \E s \in TwoSessions : SessionWave(s) \/ SessionWorker(s) \/ SessionJoin(s)

SpecTwo == InitTwo /\ [][NextTwo]_vars

\* C31.  Two sessions of one process: the join of a wave observes an error
\* exactly when a worker of that wave of its own session raised one, and
\* the error it observes is its own session's, never the other's.
C31_Joined(s) == callOut.sess[s].phase = "idle" /\ callOut.sess[s].waves > 0

C31_ErrorsStayInSession ==
    pc = "two" =>
        \A s \in TwoSessions :
            C31_Joined(s) =>
                /\ callOut.sess[s].seen \in {"none", s}
                /\ callOut.sess[s].raised <=> callOut.sess[s].seen = s

\* No worker waits to send on a channel that is full and that the package
\* variable no longer refers to: no join will ever receive from it.
C31_NoSenderStranded ==
    pc = "two" =>
        \A s \in TwoSessions : \A j \in 1..Len(callOut.sess[s].workers) :
            LET w == callOut.sess[s].workers[j] IN
            w.st = "send" =>
                \/ w.ch = dlErrChan
                \/ Len(callOut.chans[w.ch].buf) < callOut.chans[w.ch].cap

====
